---- MODULE Spec2Model ----
(***************************************************************************)
(* A model of skinview3d's geometry / texture-atlas engine (model.ts), its *)
(* pixel-buffer heuristics (convertSkinTo1_8, isSlimSkin) and the objects  *)
(* built from them.                                                        *)
(*                                                                         *)
(* Numbers.  UV coordinates are quotients x / textureWidth; they are kept  *)
(* as exact fractions <<numerator, denominator>>, so a statement about     *)
(* them is a statement about the arithmetic the code writes down, not      *)
(* about IEEE rounding (which is exact anyway for the 64- and 32-wide      *)
(* atlases, whose denominators are powers of two).                         *)
(***************************************************************************)
EXTENDS Integers, Sequences, FiniteSets, TLC

VARIABLES
    uvPc,       \* Face-UV projector: "new" (box just constructed) or "set"
    uvCall,     \* the call made on the box: [fn, u, v, width, height, depth]
    uvAttr,     \* the box's uv attribute: 24 vertices [x |-> frac, y |-> frac]
    skin,       \* the SkinObject: [slim, box (12 layer meshes), pos (groups)]
    assigned,   \* history: the values assigned to SkinObject.modelType so far
    pixIn,      \* the skin image handed over: [width, holes (pixel -> alpha)]
    canvas,     \* the skin canvas context: [width, rows], rows[y][x] = <<r, g, b, a>>
    pixPc,      \* "loaded", or "converted" once convertSkinTo1_8 has run
    copied,     \* the copySkin calls (indices of CopySkinCalls) made on the canvas
    slimResult, \* <<>>, or <<b>> once isSlimSkin has returned b for the canvas
    leftWing,   \* ElytraObject.leftWing: [position, rotation], <<x, y, z>> each
    rightWing,  \* ElytraObject.rightWing: [position, rotation]
    elytraOp,   \* the last operation on the elytra: "new", "left" or "update"
    moves,      \* history: how often the left wing's pose has been written
    jsonIn,     \* the document handed to the last mount, as it was handed over
    jsonDoc,    \* the same document object as the mount has left it
    children,   \* JsonModelObject.children: the meshes added to the instance
    jsonThrew,  \* whether the last mount ended in a TypeError
    jsonBase,   \* history: how many children there were before the last mount
    jsonMounts, \* history: updateModel calls made since the constructor returned
    hatCanvases,            \* PlayerObject input: entry i - 1 is not null
    shoulderBuddyCanvases,  \* PlayerObject input: entry i - 1 is not null
    player,     \* the PlayerObject: [fields (name -> key or "null"), objects]
    renderPaused,   \* SkinViewer._renderPaused
    disposed,       \* SkinViewer._disposed
    animationID,    \* SkinViewer.animationID, 0 for null
    frames,         \* the browser: ids of the queued animation-frame callbacks
    running,        \* the id of the callback whose draw() is executing, or 0
    contextLost,    \* renderer.getContext().isContextLost()
    lostQueued,     \* the browser: webglcontextlost is queued, not yet delivered
    loaded,         \* SkinViewer: what each operation's canvas holds
    modelType,      \* playerObject.skin.modelType as the viewer has set it
    loads,          \* the image loads started and not yet completed
    called,         \* history: the last two load calls of each operation
    issued          \* history: how many load calls have been recorded

uvVars == <<uvPc, uvCall, uvAttr>>
skinVars == <<skin, assigned>>
pixVars == <<pixIn, canvas, pixPc, copied, slimResult>>
elytraVars == <<leftWing, rightWing, elytraOp, moves>>
jsonVars == <<jsonIn, jsonDoc, children, jsonThrew, jsonBase, jsonMounts>>
playerVars == <<hatCanvases, shoulderBuddyCanvases, player>>
loopVars == <<renderPaused, disposed, animationID, frames, running, contextLost,
              lostQueued>>
loadVars == <<loaded, modelType, loads, called, issued>>

\* What an operation of one component leaves alone: the other components.
uvRest == <<skinVars, pixVars, elytraVars, jsonVars, playerVars, loopVars, loadVars>>
skinRest == <<uvVars, pixVars, elytraVars, jsonVars, playerVars, loopVars, loadVars>>
pixRest == <<uvVars, skinVars, elytraVars, jsonVars, playerVars, loopVars, loadVars>>
elytraRest == <<uvVars, skinVars, pixVars, jsonVars, playerVars, loopVars, loadVars>>
jsonRest == <<uvVars, skinVars, pixVars, elytraVars, playerVars, loopVars, loadVars>>
playerRest == <<uvVars, skinVars, pixVars, elytraVars, jsonVars, loopVars, loadVars>>
loopRest == <<uvVars, skinVars, pixVars, elytraVars, jsonVars, playerVars, loadVars>>
\* The load operations of the viewer write the PlayerObject as well.
loadRest == <<uvVars, skinVars, pixVars, elytraVars, jsonVars, loopVars>>

vars == <<uvPc, uvCall, uvAttr, skin, assigned, pixIn, canvas, pixPc, copied,
         slimResult, leftWing, rightWing, elytraOp, moves, jsonIn, jsonDoc,
         children, jsonThrew, jsonBase, jsonMounts, hatCanvases,
         shoulderBuddyCanvases, player, renderPaused, disposed, animationID,
         frames, running, contextLost, lostQueued, loaded, modelType, loads,
         called, issued>>

(***************************************************************************)
(* Bounds of the model.                                                    *)
(***************************************************************************)
MaxDim == 3     \* box width / height / depth are drawn from 0..MaxDim
MaxOff == 2     \* atlas offsets are drawn within MaxOff of an atlas edge
MaxAssign == 4  \* modelType assignments followed in one behaviour
MaxScale == 2   \* skin canvases are 32 * k pixels wide, k in 1..MaxScale
MaxHoles == 1   \* pixels of a skin image that are not fully opaque
MaxPose == 1    \* a pose component is written with a value in -MaxPose..MaxPose
MaxMoves == 2   \* writes to the left wing's pose followed in one behaviour
MaxCoord == 2   \* document coordinates (from, to, origin) are drawn from 0..MaxCoord
MaxMounts == 1  \* updateModel calls followed after the constructor
MaxFilled == 2  \* entries of hatCanvases (of shoulderBuddyCanvases) that are not null
MaxFrames == 3  \* animation-frame ids in use at one time
MaxCalls == 2   \* load calls with null or a remote source in one behaviour

(***************************************************************************)
(* Exact fractions.                                                        *)
(***************************************************************************)
Frac(n, d) == <<n, d>>
OneMinus(q) == <<q[2] - q[1], q[2]>>
FracScale(q, k) == <<q[1] * k, q[2]>>
FracIsInt(q) == q[1] % q[2] = 0
FracToInt(q) == q[1] \div q[2]
FracLess(p, q) == p[1] * q[2] < q[1] * p[2]
FracLeq(p, q) == p[1] * q[2] <= q[1] * p[2]
FracEq(p, q) == p[1] * q[2] = q[1] * p[2]
FracMax(p, q) == IF FracLess(p, q) THEN q ELSE p
FracMin(p, q) == IF FracLess(p, q) THEN p ELSE q

Vector2(x, y) == [x |-> x, y |-> y]

(***************************************************************************)
(* three.js BoxGeometry: 6 faces (+x, -x, +y, -y, +z, -z) of 4 vertices,   *)
(* each face with the uv (0,1), (1,1), (0,0), (1,0).                       *)
(***************************************************************************)
BoxGeometryUVs ==
    [i \in 1..24 |->
        CASE i % 4 = 1 -> Vector2(Frac(0, 1), Frac(1, 1))
          [] i % 4 = 2 -> Vector2(Frac(1, 1), Frac(1, 1))
          [] i % 4 = 3 -> Vector2(Frac(0, 1), Frac(0, 1))
          [] OTHER     -> Vector2(Frac(1, 1), Frac(0, 1))]

\* BufferAttribute.copyVector2sArray: vector i goes to slot i.
CopyVector2sArray(attr, vectors) ==
    [i \in 1..Len(attr) |-> IF i <= Len(vectors) THEN vectors[i] ELSE attr[i]]

\* setUVs' toFaceVertices closure (0-based [0..3] is 1-based [1..4] here).
ToFaceVertices(x1, y1, x2, y2, textureWidth, textureHeight) ==
    << Vector2(Frac(x1, textureWidth), OneMinus(Frac(y2, textureHeight))),
       Vector2(Frac(x2, textureWidth), OneMinus(Frac(y2, textureHeight))),
       Vector2(Frac(x2, textureWidth), OneMinus(Frac(y1, textureHeight))),
       Vector2(Frac(x1, textureWidth), OneMinus(Frac(y1, textureHeight))) >>

\* A transposition bug: the bottom face ends at u + width + depth * 2.
SetUVsArrayBottomSlip(u, v, width, height, depth, textureWidth, textureHeight) ==
    LET tfv(x1, y1, x2, y2) == ToFaceVertices(x1, y1, x2, y2, textureWidth, textureHeight)
        top    == tfv(u + depth, v, u + width + depth, v + depth)
        bottom == tfv(u + width + depth, v, u + width + depth * 2, v + depth)
        left   == tfv(u, v + depth, u + depth, v + depth + height)
        front  == tfv(u + depth, v + depth, u + width + depth, v + depth + height)
        right  == tfv(u + width + depth, v + depth, u + width + depth * 2, v + height + depth)
        back   == tfv(u + width + depth * 2, v + depth, u + width * 2 + depth * 2, v + height + depth)
    IN  << right[4], right[3], right[1], right[2],
           left[4], left[3], left[1], left[2],
           top[4], top[3], top[1], top[2],
           bottom[1], bottom[2], bottom[4], bottom[3],
           front[4], front[3], front[1], front[2],
           back[4], back[3], back[1], back[2] >>

\* setUVs: the array handed to copyVector2sArray.
SetUVsArray(u, v, width, height, depth, textureWidth, textureHeight) ==
    LET tfv(x1, y1, x2, y2) == ToFaceVertices(x1, y1, x2, y2, textureWidth, textureHeight)
        top    == tfv(u + depth, v, u + width + depth, v + depth)
        bottom == tfv(u + width + depth, v, u + width * 2 + depth, v + depth)
        left   == tfv(u, v + depth, u + depth, v + depth + height)
        front  == tfv(u + depth, v + depth, u + width + depth, v + depth + height)
        right  == tfv(u + width + depth, v + depth, u + width + depth * 2, v + height + depth)
        back   == tfv(u + width + depth * 2, v + depth, u + width * 2 + depth * 2, v + height + depth)
    IN  << right[4], right[3], right[1], right[2],
           left[4], left[3], left[1], left[2],
           top[4], top[3], top[1], top[2],
           bottom[1], bottom[2], bottom[4], bottom[3],
           front[4], front[3], front[1], front[2],
           back[4], back[3], back[1], back[2] >>

SetUVs(attr, u, v, width, height, depth, textureWidth, textureHeight) ==
    CopyVector2sArray(attr, SetUVsArray(u, v, width, height, depth, textureWidth, textureHeight))

\* A wrong atlas height: the skin projected with the cape's 64x32.
SetSkinUVsCapeAtlas(attr, u, v, width, height, depth) ==
    SetUVs(attr, u, v, width, height, depth, 64, 32)

SetSkinUVs(attr, u, v, width, height, depth) ==
    SetUVs(attr, u, v, width, height, depth, 64, 64)

SetCapeUVs(attr, u, v, width, height, depth) ==
    SetUVs(attr, u, v, width, height, depth, 64, 32)

\* EarsObject projects with setUVs directly, on a 14x7 atlas.
SetEarsUVs(attr, u, v, width, height, depth) ==
    SetUVs(attr, u, v, width, height, depth, 14, 7)

\* The atlas size each projector passes to setUVs.
TextureSize(fn) ==
    CASE fn = "setSkinUVs" -> <<64, 64>>
      [] fn = "setCapeUVs" -> <<64, 32>>
      [] OTHER             -> <<14, 7>>

(***************************************************************************)
(* The Face-UV projector as a state machine: a box is constructed, then    *)
(* one of the projectors is applied to it.                                 *)
(***************************************************************************)
Dims == 0..MaxDim
\* Offsets at the atlas origin, and offsets from which the largest boxes just
\* fit or just overflow the right (64) and the lower (32, 64) atlas edge.
OffsetsU == (0..MaxOff) \cup ((64 - 4 * MaxDim)..(64 - 4 * MaxDim + MaxOff))
OffsetsV == (0..MaxOff) \cup ((32 - 2 * MaxDim)..(32 - 2 * MaxDim + MaxOff))
                        \cup ((64 - 2 * MaxDim)..(64 - 2 * MaxDim + MaxOff))

UVIdle ==
    /\ uvPc = "idle"
    /\ uvCall = [fn |-> "none", u |-> 0, v |-> 0, width |-> 0, height |-> 0, depth |-> 0]
    /\ uvAttr = BoxGeometryUVs

UVInit ==
    /\ uvPc = "new"
    /\ uvCall \in [fn : {"none"}, u : OffsetsU, v : OffsetsV,
                   width : Dims, height : Dims, depth : Dims]
    /\ uvAttr = BoxGeometryUVs

ApplySkinUVs ==
    /\ uvPc = "new"
    /\ uvPc' = "set"
    /\ uvCall' = [uvCall EXCEPT !.fn = "setSkinUVs"]
    /\ uvAttr' = SetSkinUVs(uvAttr, uvCall.u, uvCall.v, uvCall.width, uvCall.height, uvCall.depth)
    /\ UNCHANGED uvRest

ApplyCapeUVs ==
    /\ uvPc = "new"
    /\ uvPc' = "set"
    /\ uvCall' = [uvCall EXCEPT !.fn = "setCapeUVs"]
    /\ uvAttr' = SetCapeUVs(uvAttr, uvCall.u, uvCall.v, uvCall.width, uvCall.height, uvCall.depth)
    /\ UNCHANGED uvRest

ApplyEarsUVs ==
    /\ uvPc = "new"
    /\ uvPc' = "set"
    /\ uvCall' = [uvCall EXCEPT !.fn = "setUVs"]
    /\ uvAttr' = SetEarsUVs(uvAttr, uvCall.u, uvCall.v, uvCall.width, uvCall.height, uvCall.depth)
    /\ UNCHANGED uvRest

UVNext == ApplySkinUVs \/ ApplyCapeUVs \/ ApplyEarsUVs

(***************************************************************************)
(* SkinObject.  Lengths are kept in tenths of a unit (4.5 is 45, -1.9 is   *)
(* -19), so that every number of the constructor is an integer; the widths *)
(* handed to setSkinUVs are atlas pixels and stay as written.              *)
(***************************************************************************)
Layers == {"head", "head2", "body", "body2", "rightArm", "rightArm2",
           "leftArm", "leftArm2", "rightLeg", "rightLeg2", "leftLeg", "leftLeg2"}
InnerLayers == {"head", "body", "rightArm", "leftArm", "rightLeg", "leftLeg"}
OuterLayers == Layers \ InnerLayers
ArmLayers == {"rightArm", "rightArm2", "leftArm", "leftArm2"}
Groups == {"head", "body", "rightArm", "leftArm", "rightLeg", "leftLeg",
           "rightArmPivot", "leftArmPivot", "rightLegPivot", "leftLegPivot"}

\* new Mesh(new BoxGeometry(w, h, d)): scale (1,1,1), visible, default uv.
Mesh(w, h, d) ==
    [geom |-> <<w, h, d>>, scale |-> <<10, 10, 10>>, uv |-> BoxGeometryUVs, visible |-> TRUE]

WithSkinUVs(mesh, u, v, width, height, depth) ==
    [mesh EXCEPT !.uv = SetSkinUVs(@, u, v, width, height, depth)]

\* The constructor up to (not including) its last line, this.modelType = "default".
SkinObjectBuilt ==
    [slim |-> FALSE,
     box |->
        [l \in Layers |->
            CASE l = "head"      -> WithSkinUVs(Mesh(80, 80, 80), 0, 0, 8, 8, 8)
              [] l = "head2"     -> WithSkinUVs(Mesh(90, 90, 90), 32, 0, 8, 8, 8)
              [] l = "body"      -> WithSkinUVs(Mesh(80, 120, 40), 16, 16, 8, 12, 4)
              [] l = "body2"     -> WithSkinUVs(Mesh(85, 125, 45), 16, 32, 8, 12, 4)
              [] l = "rightLeg"  -> WithSkinUVs(Mesh(40, 120, 40), 0, 16, 4, 12, 4)
              [] l = "rightLeg2" -> WithSkinUVs(Mesh(45, 125, 45), 0, 32, 4, 12, 4)
              [] l = "leftLeg"   -> WithSkinUVs(Mesh(40, 120, 40), 16, 48, 4, 12, 4)
              [] l = "leftLeg2"  -> WithSkinUVs(Mesh(45, 125, 45), 0, 48, 4, 12, 4)
              [] OTHER           -> Mesh(10, 10, 10)],   \* the arms: new BoxGeometry()
     pos |->
        [g \in Groups |->
            CASE g = "body"          -> <<0, -60, 0>>
              [] g = "rightArmPivot" -> <<0, -40, 0>>
              [] g = "rightArm"      -> <<-50, -20, 0>>
              [] g = "leftArmPivot"  -> <<0, -40, 0>>
              [] g = "leftArm"       -> <<50, -20, 0>>
              [] g = "rightLegPivot" -> <<0, -60, 0>>
              [] g = "rightLeg"      -> <<-19, -120, -1>>
              [] g = "leftLegPivot"  -> <<0, -60, 0>>
              [] g = "leftLeg"       -> <<19, -120, -1>>
              [] OTHER               -> <<0, 0, 0>>]]

\* The closures pushed on modelListeners, in the order they are pushed.
ModelListeners ==
    <<"rightArm", "rightArm2", "rightArmPivot", "leftArm", "leftArm2", "leftArmPivot">>

\* A slip in one closure: the left overlay arm keeps the classic width.
RunListenerStaleOverlay(s, id) ==
    CASE id = "rightArm" ->
            [s EXCEPT !.box["rightArm"].scale = <<IF s.slim THEN 30 ELSE 40, 120, 40>>,
                      !.box["rightArm"].uv =
                          SetSkinUVs(@, 40, 16, IF s.slim THEN 3 ELSE 4, 12, 4)]
      [] id = "rightArm2" ->
            [s EXCEPT !.box["rightArm2"].scale = <<IF s.slim THEN 35 ELSE 45, 125, 45>>,
                      !.box["rightArm2"].uv =
                          SetSkinUVs(@, 40, 32, IF s.slim THEN 3 ELSE 4, 12, 4)]
      [] id = "rightArmPivot" ->
            [s EXCEPT !.pos["rightArmPivot"][1] = IF s.slim THEN -5 ELSE -10]
      [] id = "leftArm" ->
            [s EXCEPT !.box["leftArm"].scale = <<IF s.slim THEN 30 ELSE 40, 120, 40>>,
                      !.box["leftArm"].uv =
                          SetSkinUVs(@, 32, 48, IF s.slim THEN 3 ELSE 4, 12, 4)]
      [] id = "leftArm2" ->
            [s EXCEPT !.box["leftArm2"].scale = <<IF s.slim THEN 35 ELSE 45, 125, 45>>,
                      !.box["leftArm2"].uv = SetSkinUVs(@, 48, 48, 4, 12, 4)]
      [] OTHER ->
            [s EXCEPT !.pos["leftArmPivot"][1] = IF s.slim THEN 5 ELSE 10]

\* A slip in one closure: the right arm narrows relative to its current width.
RunListenerRelative(s, id) ==
    CASE id = "rightArm" ->
            [s EXCEPT !.box["rightArm"].scale =
                          <<IF s.slim THEN s.box["rightArm"].scale[1] - 10 ELSE 40, 120, 40>>,
                      !.box["rightArm"].uv =
                          SetSkinUVs(@, 40, 16, IF s.slim THEN 3 ELSE 4, 12, 4)]
      [] id = "rightArm2" ->
            [s EXCEPT !.box["rightArm2"].scale = <<IF s.slim THEN 35 ELSE 45, 125, 45>>,
                      !.box["rightArm2"].uv =
                          SetSkinUVs(@, 40, 32, IF s.slim THEN 3 ELSE 4, 12, 4)]
      [] id = "rightArmPivot" ->
            [s EXCEPT !.pos["rightArmPivot"][1] = IF s.slim THEN -5 ELSE -10]
      [] id = "leftArm" ->
            [s EXCEPT !.box["leftArm"].scale = <<IF s.slim THEN 30 ELSE 40, 120, 40>>,
                      !.box["leftArm"].uv =
                          SetSkinUVs(@, 32, 48, IF s.slim THEN 3 ELSE 4, 12, 4)]
      [] id = "leftArm2" ->
            [s EXCEPT !.box["leftArm2"].scale = <<IF s.slim THEN 35 ELSE 45, 125, 45>>,
                      !.box["leftArm2"].uv =
                          SetSkinUVs(@, 48, 48, IF s.slim THEN 3 ELSE 4, 12, 4)]
      [] OTHER ->
            [s EXCEPT !.pos["leftArmPivot"][1] = IF s.slim THEN 5 ELSE 10]

\* A slip in one closure: the right overlay arm is widened by 1 and not by 0.5.
RunListenerThickOverlay(s, id) ==
    CASE id = "rightArm" ->
            [s EXCEPT !.box["rightArm"].scale = <<IF s.slim THEN 30 ELSE 40, 120, 40>>,
                      !.box["rightArm"].uv =
                          SetSkinUVs(@, 40, 16, IF s.slim THEN 3 ELSE 4, 12, 4)]
      [] id = "rightArm2" ->
            [s EXCEPT !.box["rightArm2"].scale = <<IF s.slim THEN 40 ELSE 50, 130, 50>>,
                      !.box["rightArm2"].uv =
                          SetSkinUVs(@, 40, 32, IF s.slim THEN 3 ELSE 4, 12, 4)]
      [] id = "rightArmPivot" ->
            [s EXCEPT !.pos["rightArmPivot"][1] = IF s.slim THEN -5 ELSE -10]
      [] id = "leftArm" ->
            [s EXCEPT !.box["leftArm"].scale = <<IF s.slim THEN 30 ELSE 40, 120, 40>>,
                      !.box["leftArm"].uv =
                          SetSkinUVs(@, 32, 48, IF s.slim THEN 3 ELSE 4, 12, 4)]
      [] id = "leftArm2" ->
            [s EXCEPT !.box["leftArm2"].scale = <<IF s.slim THEN 35 ELSE 45, 125, 45>>,
                      !.box["leftArm2"].uv =
                          SetSkinUVs(@, 48, 48, IF s.slim THEN 3 ELSE 4, 12, 4)]
      [] OTHER ->
            [s EXCEPT !.pos["leftArmPivot"][1] = IF s.slim THEN 5 ELSE 10]

\* A slip in one closure: the right arm is also made visible again.
RunListenerShowsArm(s, id) ==
    CASE id = "rightArm" ->
            [s EXCEPT !.box["rightArm"].scale = <<IF s.slim THEN 30 ELSE 40, 120, 40>>,
                      !.box["rightArm"].visible = TRUE,
                      !.box["rightArm"].uv =
                          SetSkinUVs(@, 40, 16, IF s.slim THEN 3 ELSE 4, 12, 4)]
      [] id = "rightArm2" ->
            [s EXCEPT !.box["rightArm2"].scale = <<IF s.slim THEN 35 ELSE 45, 125, 45>>,
                      !.box["rightArm2"].uv =
                          SetSkinUVs(@, 40, 32, IF s.slim THEN 3 ELSE 4, 12, 4)]
      [] id = "rightArmPivot" ->
            [s EXCEPT !.pos["rightArmPivot"][1] = IF s.slim THEN -5 ELSE -10]
      [] id = "leftArm" ->
            [s EXCEPT !.box["leftArm"].scale = <<IF s.slim THEN 30 ELSE 40, 120, 40>>,
                      !.box["leftArm"].uv =
                          SetSkinUVs(@, 32, 48, IF s.slim THEN 3 ELSE 4, 12, 4)]
      [] id = "leftArm2" ->
            [s EXCEPT !.box["leftArm2"].scale = <<IF s.slim THEN 35 ELSE 45, 125, 45>>,
                      !.box["leftArm2"].uv =
                          SetSkinUVs(@, 48, 48, IF s.slim THEN 3 ELSE 4, 12, 4)]
      [] OTHER ->
            [s EXCEPT !.pos["leftArmPivot"][1] = IF s.slim THEN 5 ELSE 10]

\* One closure of modelListeners, run on the SkinObject s.
RunListener(s, id) ==
    CASE id = "rightArm" ->
            [s EXCEPT !.box["rightArm"].scale = <<IF s.slim THEN 30 ELSE 40, 120, 40>>,
                      !.box["rightArm"].uv =
                          SetSkinUVs(@, 40, 16, IF s.slim THEN 3 ELSE 4, 12, 4)]
      [] id = "rightArm2" ->
            [s EXCEPT !.box["rightArm2"].scale = <<IF s.slim THEN 35 ELSE 45, 125, 45>>,
                      !.box["rightArm2"].uv =
                          SetSkinUVs(@, 40, 32, IF s.slim THEN 3 ELSE 4, 12, 4)]
      [] id = "rightArmPivot" ->
            [s EXCEPT !.pos["rightArmPivot"][1] = IF s.slim THEN -5 ELSE -10]
      [] id = "leftArm" ->
            [s EXCEPT !.box["leftArm"].scale = <<IF s.slim THEN 30 ELSE 40, 120, 40>>,
                      !.box["leftArm"].uv =
                          SetSkinUVs(@, 32, 48, IF s.slim THEN 3 ELSE 4, 12, 4)]
      [] id = "leftArm2" ->
            [s EXCEPT !.box["leftArm2"].scale = <<IF s.slim THEN 35 ELSE 45, 125, 45>>,
                      !.box["leftArm2"].uv =
                          SetSkinUVs(@, 48, 48, IF s.slim THEN 3 ELSE 4, 12, 4)]
      [] OTHER ->
            [s EXCEPT !.pos["leftArmPivot"][1] = IF s.slim THEN 5 ELSE 10]

\* modelListeners.forEach(listener => listener())
RECURSIVE ForEachListener(_, _)
ForEachListener(s, listeners) ==
    IF listeners = <<>> THEN s
    ELSE ForEachListener(RunListener(s, Head(listeners)), Tail(listeners))

\* set modelType(value)
SetModelTypeOf(s, value) ==
    ForEachListener([s EXCEPT !.slim = (value = "slim")], ModelListeners)

\* get modelType()
GetModelType(s) == IF s.slim THEN "slim" ELSE "default"

\* SkinObject.setInnerLayerVisible / setOuterLayerVisible: every child of the
\* SkinObject that is a BodyPart (all six parts are added with this.add).
SetInnerLayerVisibleOfAll(s, value) ==
    [s EXCEPT !.box = [l \in Layers |-> [s.box[l] EXCEPT !.visible = value]]]

SetInnerLayerVisibleOf(s, value) ==
    [s EXCEPT !.box = [l \in Layers |->
        IF l \in InnerLayers THEN [s.box[l] EXCEPT !.visible = value] ELSE s.box[l]]]

SetOuterLayerVisibleOf(s, value) ==
    [s EXCEPT !.box = [l \in Layers |->
        IF l \in OuterLayers THEN [s.box[l] EXCEPT !.visible = value] ELSE s.box[l]]]

ModelTypes == {"default", "slim"}

SkinIdle ==
    /\ skin = SkinObjectBuilt
    /\ assigned = <<>>

\* new SkinObject(texture): the constructor ends with this.modelType = "default".
SkinInit ==
    /\ skin = SetModelTypeOf(SkinObjectBuilt, "default")
    /\ assigned = <<>>

SetModelType(value) ==
    /\ Len(assigned) < MaxAssign
    /\ skin' = SetModelTypeOf(skin, value)
    /\ assigned' = Append(assigned, value)
    /\ UNCHANGED skinRest

SetInnerLayerVisible(value) ==
    /\ skin' = SetInnerLayerVisibleOf(skin, value)
    /\ UNCHANGED <<assigned, skinRest>>

SetOuterLayerVisible(value) ==
    /\ skin' = SetOuterLayerVisibleOf(skin, value)
    /\ UNCHANGED <<assigned, skinRest>>

SkinNext ==
    \/ \E value \in ModelTypes : SetModelType(value)
    \/ \E value \in BOOLEAN : SetInnerLayerVisible(value)
    \/ \E value \in BOOLEAN : SetOuterLayerVisible(value)

(***************************************************************************)
(* The skin canvas (2D context) and the two heuristics that read it.  A    *)
(* pixel is <<r, g, b, a>>; ImageData.data, four bytes per pixel, is kept  *)
(* as one pixel per index, so byte index (x + y * w) * 4 + c is channel    *)
(* c + 1 of pixel x + y * w.  Canvas widths are multiples of 32, for which *)
(* every scaled rectangle below has integer coordinates.                   *)
(***************************************************************************)
Transparent == <<0, 0, 0, 0>>

\* context.getImageData(sx, sy, sw, sh); outside the canvas: transparent black.
GetImageData(ctx, sx, sy, sw, sh) ==
    [width |-> sw, height |-> sh,
     data |-> [k \in 0..(sw * sh - 1) |->
        LET x == sx + (k % sw)
            y == sy + (k \div sw)
        IN  IF x \in 0..(ctx.width - 1) /\ y \in 0..(ctx.width - 1)
            THEN ctx.rows[y][x] ELSE Transparent]]

\* context.putImageData(imgData, dx, dy)
PutImageData(ctx, img, dx, dy) ==
    [ctx EXCEPT !.rows =
        [y \in 0..(ctx.width - 1) |->
            IF y \in dy..(dy + img.height - 1)
            THEN [x \in 0..(ctx.width - 1) |->
                    IF x \in dx..(dx + img.width - 1)
                    THEN img.data[(x - dx) + (y - dy) * img.width]
                    ELSE ctx.rows[y][x]]
            ELSE ctx.rows[y]]]

\* copyImage's loops: for y < h, for x < w / 2, swap pixels x and w - x - 1 of row y.
RECURSIVE FlipLoop(_, _, _, _, _)
FlipLoop(data, w, h, x, y) ==
    IF y >= h THEN data
    ELSE IF 2 * x >= w THEN FlipLoop(data, w, h, 0, y + 1)
    ELSE LET index  == x + y * w
             index2 == (w - x - 1) + y * w
         IN  FlipLoop([data EXCEPT ![index] = data[index2], ![index2] = data[index]],
                      w, h, x + 1, y)

\* A slip in the mirror index: w - x instead of w - x - 1, one pixel off.
CopyImageOffByOne(ctx, sX, sY, w, h, dX, dY, flipHorizontal) ==
    LET img == GetImageData(ctx, sX, sY, w, h)
        out == IF flipHorizontal
               THEN [img EXCEPT !.data =
                        [k \in DOMAIN img.data |->
                            LET x == k % w
                                y == k \div w
                            IN  img.data[((w - x) % w) + y * w]]]
               ELSE img
    IN  PutImageData(ctx, out, dX, dY)

\* copyImage(context, sX, sY, w, h, dX, dY, flipHorizontal)
CopyImage(ctx, sX, sY, w, h, dX, dY, flipHorizontal) ==
    LET img == GetImageData(ctx, sX, sY, w, h)
        out == IF flipHorizontal
               THEN [img EXCEPT !.data = FlipLoop(img.data, w, h, 0, 0)]
               ELSE img
    IN  PutImageData(ctx, out, dX, dY)

\* hasTransparency(context, x0, y0, w, h)
HasTransparency(ctx, x0, y0, w, h) ==
    LET img == GetImageData(ctx, x0, y0, w, h)
    IN  \E x \in 0..(w - 1) : \E y \in 0..(h - 1) : img.data[x + y * w][4] # 255

\* computeSkinScale(width) = width / 64.0, applied to n: n * scale.
Scaled(n, width) == (n * width) \div 64

\* A slip in one call: Outer Arm is written next to its source, at (44, 20),
\* which is the source of Front Arm.
CopySkinCallsOverlap ==
    << <<4, 16, 4, 4, 20, 48, TRUE>>,
       <<8, 16, 4, 4, 24, 48, TRUE>>,
       <<0, 20, 4, 12, 24, 52, TRUE>>,
       <<4, 20, 4, 12, 20, 52, TRUE>>,
       <<8, 20, 4, 12, 16, 52, TRUE>>,
       <<12, 20, 4, 12, 28, 52, TRUE>>,
       <<44, 16, 4, 4, 36, 48, TRUE>>,
       <<48, 16, 4, 4, 40, 48, TRUE>>,
       <<40, 20, 4, 12, 44, 20, TRUE>>,
       <<44, 20, 4, 12, 36, 52, TRUE>>,
       <<48, 20, 4, 12, 32, 52, TRUE>>,
       <<52, 20, 4, 12, 44, 52, TRUE>> >>

\* The copySkin calls of convertSkinTo1_8, in order: <<sX, sY, w, h, dX, dY, flip>>.
CopySkinCalls ==
    << <<4, 16, 4, 4, 20, 48, TRUE>>,     \* Top Leg
       <<8, 16, 4, 4, 24, 48, TRUE>>,     \* Bottom Leg
       <<0, 20, 4, 12, 24, 52, TRUE>>,    \* Outer Leg
       <<4, 20, 4, 12, 20, 52, TRUE>>,    \* Front Leg
       <<8, 20, 4, 12, 16, 52, TRUE>>,    \* Inner Leg
       <<12, 20, 4, 12, 28, 52, TRUE>>,   \* Back Leg
       <<44, 16, 4, 4, 36, 48, TRUE>>,    \* Top Arm
       <<48, 16, 4, 4, 40, 48, TRUE>>,    \* Bottom Arm
       <<40, 20, 4, 12, 40, 52, TRUE>>,   \* Outer Arm
       <<44, 20, 4, 12, 36, 52, TRUE>>,   \* Front Arm
       <<48, 20, 4, 12, 32, 52, TRUE>>,   \* Inner Arm
       <<52, 20, 4, 12, 44, 52, TRUE>> >> \* Back Arm

\* convertSkinTo1_8's copySkin closure: copyImage on the scaled rectangle.
CopySkin(ctx, width, c) ==
    CopyImage(ctx, Scaled(c[1], width), Scaled(c[2], width), Scaled(c[3], width),
              Scaled(c[4], width), Scaled(c[5], width), Scaled(c[6], width), c[7])

RECURSIVE CopySkinAll(_, _, _)
CopySkinAll(ctx, width, calls) ==
    IF calls = <<>> THEN ctx
    ELSE CopySkinAll(CopySkin(ctx, width, Head(calls)), width, Tail(calls))

\* convertSkinTo1_8(skinContext, width)
ConvertSkinTo1_8Of(ctx, width) == CopySkinAll(ctx, width, CopySkinCalls)

\* A slip in one probe: the last area starts at y = 48 instead of 52.
IsSlimSkinOfShifted(ctx, width) ==
    LET checkArea(x, y, w, h) ==
            HasTransparency(ctx, Scaled(x, width), Scaled(y, width),
                            Scaled(w, width), Scaled(h, width))
    IN  \/ checkArea(50, 16, 2, 4)
        \/ checkArea(54, 20, 2, 12)
        \/ checkArea(42, 48, 2, 4)
        \/ checkArea(46, 48, 2, 12)

\* isSlimSkin(skinContext, width)
IsSlimSkinOf(ctx, width) ==
    LET checkArea(x, y, w, h) ==
            HasTransparency(ctx, Scaled(x, width), Scaled(y, width),
                            Scaled(w, width), Scaled(h, width))
    IN  \/ checkArea(50, 16, 2, 4)
        \/ checkArea(54, 20, 2, 12)
        \/ checkArea(42, 48, 2, 4)
        \/ checkArea(46, 52, 2, 12)

\* The unused arm areas of a slim skin, as drawn in isSlimSkin's comment.
UnusedArmAreas == {<<50, 16, 2, 4>>, <<54, 20, 2, 12>>, <<42, 48, 2, 4>>, <<46, 52, 2, 12>>}

\* Where a skin image may have a pixel that is not opaque: the first and last
\* pixel of each unused area, the pixel right before it, and the two far
\* corners of the image.
HoleSpots(width) ==
    LET s(n) == Scaled(n, width)
    IN  UNION {{ <<s(r[1]), s(r[2])>>,
                 <<s(r[1] + r[3]) - 1, s(r[2] + r[4]) - 1>>,
                 <<s(r[1]) - 1, s(r[2])>> } : r \in UnusedArmAreas}
        \cup {<<0, 0>>, <<width - 1, width - 1>>}

Widths == {32 * k : k \in 1..MaxScale}

SkinImages ==
    UNION {
        UNION {[width : {w}, holes : [spots -> {0, 254}]] :
               spots \in {h \in SUBSET HoleSpots(w) : Cardinality(h) <= MaxHoles}}
        : w \in Widths}

\* The canvas after the image is drawn on it.  Pixel (x, y) is coloured
\* r = x, g = y, so that every pixel of the image is told from every other.
ImagePixel(img, x, y) ==
    <<x, y, 0, IF <<x, y>> \in DOMAIN img.holes THEN img.holes[<<x, y>>] ELSE 255>>

DrawImage(img) ==
    [width |-> img.width,
     rows |-> [y \in 0..(img.width - 1) |-> [x \in 0..(img.width - 1) |->
        ImagePixel(img, x, y)]]]

PixIdle ==
    /\ pixIn = [width |-> 0, holes |-> <<>>]
    /\ canvas = [width |-> 0, rows |-> <<>>]
    /\ pixPc = "idle"
    /\ copied = {}
    /\ slimResult = <<>>

PixInit ==
    /\ pixIn \in SkinImages
    /\ canvas = DrawImage(pixIn)
    /\ pixPc = "loaded"
    /\ copied = {}
    /\ slimResult = <<>>

ConvertSkinTo1_8 ==
    /\ pixPc = "loaded"
    /\ canvas' = ConvertSkinTo1_8Of(canvas, canvas.width)
    /\ pixPc' = "converted"
    /\ copied' = DOMAIN CopySkinCalls
    /\ slimResult' = <<>>
    /\ UNCHANGED <<pixIn, pixRest>>

IsSlimSkin ==
    /\ pixPc \in {"loaded", "converted"}
    /\ slimResult = <<>>
    /\ slimResult' = <<IsSlimSkinOf(canvas, canvas.width)>>
    /\ UNCHANGED <<pixIn, canvas, pixPc, copied, pixRest>>

PixNext == ConvertSkinTo1_8 \/ IsSlimSkin

\* convertSkinTo1_8 with its copySkin calls made in an arbitrary order: call i
\* is made on the canvas as the calls before it have left it.
OrderInit ==
    /\ pixIn \in {img \in SkinImages : img.holes = <<>>}
    /\ canvas = DrawImage(pixIn)
    /\ pixPc = "loaded"
    /\ copied = {}
    /\ slimResult = <<>>

CopySkinInSomeOrder(i) ==
    /\ i \notin copied
    /\ canvas' = CopySkin(canvas, canvas.width, CopySkinCalls[i])
    /\ copied' = copied \cup {i}
    /\ pixPc' = IF copied' = DOMAIN CopySkinCalls THEN "converted" ELSE "converting"
    /\ UNCHANGED <<pixIn, slimResult, pixRest>>

OrderNext == \E i \in DOMAIN CopySkinCalls : CopySkinInSomeOrder(i)

(***************************************************************************)
(* ElytraObject.  Positions are in units, rotations (Euler angles, rad) in *)
(* units of 1e-7 rad, so that .2617994 is 2617994 and .01 is 100000.       *)
(***************************************************************************)
Group3D == [position |-> <<0, 0, 0>>, rotation |-> <<0, 0, 0>>]

\* A sign slip: rotation.y is copied instead of negated.
UpdateRightWingOfCopiesY(left, right) ==
    [right EXCEPT !.position[1] = -left.position[1],
                  !.position[2] = left.position[2],
                  !.rotation[1] = left.rotation[1],
                  !.rotation[2] = left.rotation[2],
                  !.rotation[3] = -left.rotation[3]]

\* An omission: position.y is not carried over.
UpdateRightWingOfDropsY(left, right) ==
    [right EXCEPT !.position[1] = -left.position[1],
                  !.rotation[1] = left.rotation[1],
                  !.rotation[2] = -left.rotation[2],
                  !.rotation[3] = -left.rotation[3]]

\* updateRightWing(): the right wing after the call.
UpdateRightWingOf(left, right) ==
    [right EXCEPT !.position[1] = -left.position[1],
                  !.position[2] = left.position[2],
                  !.rotation[1] = left.rotation[1],
                  !.rotation[2] = -left.rotation[2],
                  !.rotation[3] = -left.rotation[3]]

\* The constructor's left wing, before it calls updateRightWing().
ElytraLeftWingBuilt ==
    [position |-> <<5, 0, 0>>, rotation |-> <<2617994, 100000, 2617994>>]

ElytraIdle ==
    /\ leftWing = Group3D
    /\ rightWing = Group3D
    /\ elytraOp = "idle"
    /\ moves = 0

\* new ElytraObject(texture)
ElytraInit ==
    /\ leftWing = ElytraLeftWingBuilt
    /\ rightWing = UpdateRightWingOf(ElytraLeftWingBuilt, Group3D)
    /\ elytraOp = "new"
    /\ moves = 0

\* A caller (an animation) writes one component of the left wing's pose:
\* elytra.leftWing.position.x = value, elytra.leftWing.rotation.z = value, ...
WriteLeftWing(field, axis, value) ==
    /\ moves < MaxMoves
    /\ leftWing' = [leftWing EXCEPT ![field][axis] = value]
    /\ elytraOp' = "left"
    /\ moves' = moves + 1
    /\ UNCHANGED <<rightWing, elytraRest>>

UpdateRightWing ==
    /\ rightWing' = UpdateRightWingOf(leftWing, rightWing)
    /\ elytraOp' = "update"
    /\ UNCHANGED <<leftWing, moves, elytraRest>>

ElytraNext ==
    \/ \E field \in {"position", "rotation"}, axis \in 1..3, value \in (-MaxPose)..MaxPose :
            WriteLeftWing(field, axis, value)
    \/ UpdateRightWing

(***************************************************************************)
(* JsonModelObject: the interpreter of cuboid documents.  A document is a  *)
(* record; a field the document does not have is a field missing from the  *)
(* record's domain.  Lengths of the geometry and of mesh.position are kept *)
(* doubled (min2, max2, position2), so that the half deltas 0.5 * xDif are *)
(* integers.  Angles are in degrees and are multiples of 90, for which the *)
(* sines and cosines are the integers below (three.js computes them in     *)
(* floating point, to within 1e-16 of these).  The material, which only    *)
(* carries the texture, is left out of a mesh.                             *)
(***************************************************************************)
Null == [null |-> TRUE]

Abs(n) == IF n < 0 THEN -n ELSE n

\* A shift the other way: arr[i] = original[(i - shift) % arr.length].
RotateArrayBackward(arr, shift) ==
    [i \in 1..Len(arr) |-> arr[((i - 1 - shift) % Len(arr)) + 1]]

\* rotateArray: arr[i] = original[(i + shift) % arr.length], 0-based.
RotateArray(arr, shift) ==
    [i \in 1..Len(arr) |-> arr[((i - 1 + shift) % Len(arr)) + 1]]

\* setJsonUVs' toFaceVertices closure: the four vertices of one face.
JsonToFaceVertices(face) ==
    LET result == << Vector2(Frac(face.uv[1], 16), OneMinus(Frac(face.uv[4], 16))),
                     Vector2(Frac(face.uv[3], 16), OneMinus(Frac(face.uv[4], 16))),
                     Vector2(Frac(face.uv[3], 16), OneMinus(Frac(face.uv[2], 16))),
                     Vector2(Frac(face.uv[1], 16), OneMinus(Frac(face.uv[2], 16))) >>
        rotation == IF "rotation" \in DOMAIN face THEN face.rotation ELSE 0
    IN  RotateArray(result, rotation \div 90)

\* What the closure leaves in the face it was handed: a rotation of 0 where
\* the face had none.
FaceAfter(face) ==
    IF "rotation" \in DOMAIN face THEN face
    ELSE [uv |-> face.uv, rotation |-> 0]

\* The order in which setJsonUVs hands the faces to the closure.
JsonFaceOrder == <<"north", "east", "south", "west", "up", "down">>

\* Reading face.uv[0] of a face that is missing, or has no uv, is a TypeError.
FaceThrows(faceUVs, name) ==
    \/ name \notin DOMAIN faceUVs
    \/ "uv" \notin DOMAIN faceUVs[name]

SetJsonUVsThrows(faceUVs) ==
    \E k \in 1..6 : FaceThrows(faceUVs, JsonFaceOrder[k])

\* The faces object after setJsonUVs: every face handled before the first
\* TypeError has been through the closure.
FaceUVsAfter(faceUVs) ==
    LET handled == {k \in 1..6 : \A j \in 1..k : ~FaceThrows(faceUVs, JsonFaceOrder[j])}
    IN  [name \in DOMAIN faceUVs |->
            IF \E k \in handled : JsonFaceOrder[k] = name
            THEN FaceAfter(faceUVs[name])
            ELSE faceUVs[name]]

\* setJsonUVs on a box whose uv attribute is attr (no TypeError).
SetJsonUVs(attr, faceUVs) ==
    LET nth  == JsonToFaceVertices(faceUVs.north)
        est  == JsonToFaceVertices(faceUVs.east)
        sth  == JsonToFaceVertices(faceUVs.south)
        wst  == JsonToFaceVertices(faceUVs.west)
        up   == JsonToFaceVertices(faceUVs.up)
        down == JsonToFaceVertices(faceUVs.down)
    IN  CopyVector2sArray(attr,
            << est[4], est[3], est[1], est[2],
               wst[4], wst[3], wst[1], wst[2],
               up[4], up[3], up[1], up[2],
               down[4], down[3], down[1], down[2],
               sth[4], sth[3], sth[1], sth[2],
               nth[4], nth[3], nth[1], nth[2] >>)

\* new BoxGeometry(width, height, depth): centred at the origin.
BoxGeometry(width, height, depth) ==
    [parameters |-> <<width, height, depth>>,
     min2 |-> <<-width, -height, -depth>>,
     max2 |-> <<width, height, depth>>,
     uv |-> BoxGeometryUVs]

\* BufferGeometry.translate, by the doubled vector t2.
Translate(box, t2) ==
    [box EXCEPT !.min2 = [i \in 1..3 |-> @[i] + t2[i]],
                !.max2 = [i \in 1..3 |-> @[i] + t2[i]]]

\* A box moved by half the size instead of half the signed delta.
ElementBoxUnsigned(element) ==
    LET dif == [i \in 1..3 |-> element.to[i] - element.from[i]]
        box == BoxGeometry(Abs(dif[1]), Abs(dif[2]), Abs(dif[3]))
        centred == Translate(box, [i \in 1..3 |-> Abs(dif[i])])
        placed == Translate(centred, [i \in 1..3 |-> 2 * element.from[i]])
    IN  [placed EXCEPT !.uv = SetJsonUVs(@, element.faces)]

\* The box of one element: BoxGeometry(|dif|), translate(0.5 * dif),
\* translate(from), setJsonUVs.
ElementBox(element) ==
    LET dif == [i \in 1..3 |-> element.to[i] - element.from[i]]
        box == BoxGeometry(Abs(dif[1]), Abs(dif[2]), Abs(dif[3]))
        centred == Translate(box, dif)
        placed == Translate(centred, [i \in 1..3 |-> 2 * element.from[i]])
    IN  [placed EXCEPT !.uv = SetJsonUVs(@, element.faces)]

\* Cosine and sine of an angle in degrees that is a multiple of 90.
QuarterTurns(angle) == (angle \div 90) % 4
Cos(angle) == CASE QuarterTurns(angle) = 0 -> 1
                [] QuarterTurns(angle) = 2 -> -1
                [] OTHER -> 0
Sin(angle) == CASE QuarterTurns(angle) = 1 -> 1
                [] QuarterTurns(angle) = 3 -> -1
                [] OTHER -> 0

Identity3 == << <<1, 0, 0>>, <<0, 1, 0>>, <<0, 0, 1>> >>

\* The rotation by angle about the unit axis "x", "y" or "z", as a matrix
\* (rows).  Any other axis string is the zero vector, whose quaternion
\* (0, 0, 0, cos(angle/2)) composes to the identity matrix.
RotationMatrix(axisStr, angle) ==
    LET c == Cos(angle)
        s == Sin(angle)
    IN  CASE axisStr = "x" -> << <<1, 0, 0>>, <<0, c, -s>>, <<0, s, c>> >>
          [] axisStr = "y" -> << <<c, 0, s>>, <<0, 1, 0>>, <<-s, 0, c>> >>
          [] axisStr = "z" -> << <<c, -s, 0>>, <<s, c, 0>>, <<0, 0, 1>> >>
          [] OTHER -> Identity3

MatVec(m, v) ==
    [i \in 1..3 |-> m[i][1] * v[1] + m[i][2] * v[2] + m[i][3] * v[3]]

MatMul(a, b) ==
    [i \in 1..3 |-> [j \in 1..3 |->
        a[i][1] * b[1][j] + a[i][2] * b[2][j] + a[i][3] * b[3][j]]]

\* Vector3.applyAxisAngle on a doubled vector.  For the zero axis the
\* quaternion is (0, 0, 0, w) with w = cos(angle/2), not a unit quaternion,
\* and applyQuaternion scales the vector by w * w = (1 + cos(angle)) / 2.
ApplyAxisAngle(v2, axisStr, angle) ==
    IF axisStr \in {"x", "y", "z"}
    THEN MatVec(RotationMatrix(axisStr, angle), v2)
    ELSE [i \in 1..3 |-> (v2[i] * (1 + Cos(angle))) \div 2]

\* new Mesh(box, hatMaterial): at the origin, not rotated.
JsonMesh(box) ==
    [geometry |-> box, position2 |-> <<0, 0, 0>>, orientation |-> Identity3]

\* The orientation turned by -angle while the position is turned by angle.
RotatedOpposite(mesh, rotation) ==
    LET pivot2 == [i \in 1..3 |-> 2 * rotation.origin[i]]
        moved == [i \in 1..3 |-> mesh.position2[i] - pivot2[i]]
        turned == ApplyAxisAngle(moved, rotation.axis, rotation.angle)
    IN  [mesh EXCEPT
            !.position2 = [i \in 1..3 |-> turned[i] + pivot2[i]],
            !.orientation = MatMul(@, RotationMatrix(rotation.axis, -rotation.angle))]

\* The rotation block of updateModel: position.sub(pivot),
\* position.applyAxisAngle(axis, angle), position.add(pivot), then
\* rotateOnAxis(axis, angle).
Rotated(mesh, rotation) ==
    LET pivot2 == [i \in 1..3 |-> 2 * rotation.origin[i]]
        moved == [i \in 1..3 |-> mesh.position2[i] - pivot2[i]]
        turned == ApplyAxisAngle(moved, rotation.axis, rotation.angle)
    IN  [mesh EXCEPT
            !.position2 = [i \in 1..3 |-> turned[i] + pivot2[i]],
            !.orientation = MatMul(@, RotationMatrix(rotation.axis, rotation.angle))]

\* The mesh one loop iteration adds for element (no TypeError).
ElementMesh(element) ==
    IF "rotation" \in DOMAIN element
    THEN Rotated(JsonMesh(ElementBox(element)), element.rotation)
    ELSE JsonMesh(ElementBox(element))

\* Whether the iteration for element ends in a TypeError: element.to[0],
\* element.from[0], the faces in setJsonUVs, rotation.origin[0].
ElementThrows(element) ==
    \/ "to" \notin DOMAIN element
    \/ "from" \notin DOMAIN element
    \/ "faces" \notin DOMAIN element
    \/ SetJsonUVsThrows(element.faces)
    \/ /\ "rotation" \in DOMAIN element
       /\ "origin" \notin DOMAIN element.rotation

\* The element object after its iteration: setJsonUVs is reached once to and
\* from have been read, and writes into the faces.
ElementAfter(element) ==
    IF {"to", "from", "faces"} \subseteq DOMAIN element
    THEN [element EXCEPT !.faces = FaceUVsAfter(@)]
    ELSE element

\* The loop of updateModel from element i on: acc are the instance's
\* children so far.  A TypeError ends the loop and leaves updateModel.
RECURSIVE MountElements(_, _, _)
MountElements(elements, i, acc) ==
    IF i > Len(elements)
    THEN [children |-> acc, threw |-> FALSE, elements |-> elements]
    ELSE IF ElementThrows(elements[i])
    THEN [children |-> acc, threw |-> TRUE,
          elements |-> [elements EXCEPT ![i] = ElementAfter(@)]]
    ELSE MountElements([elements EXCEPT ![i] = ElementAfter(@)], i + 1,
                       Append(acc, ElementMesh(elements[i])))

\* updateModel with the guard `if (!json) return;` only: json.elements.length
\* of a document without elements is a TypeError.
UpdateModelOfUnguarded(acc, json) ==
    IF json.null
    THEN [children |-> acc, threw |-> FALSE, doc |-> json]
    ELSE IF "elements" \notin DOMAIN json
    THEN [children |-> acc, threw |-> TRUE, doc |-> json]
    ELSE LET run == MountElements(json.elements, 1, acc)
         IN  [children |-> run.children, threw |-> run.threw,
              doc |-> [json EXCEPT !.elements = run.elements]]

\* updateModel(json, texture) on an instance whose children are acc.
UpdateModelOf(acc, json) ==
    IF json.null \/ "elements" \notin DOMAIN json
    THEN [children |-> acc, threw |-> FALSE, doc |-> json]
    ELSE LET run == MountElements(json.elements, 1, acc)
         IN  [children |-> run.children, threw |-> run.threw,
              doc |-> [json EXCEPT !.elements = run.elements]]

(***************************************************************************)
(* The documents the interpreter is run on.                                *)
(***************************************************************************)
Coords == 0..MaxCoord
Points == {<<x, y, z>> : x \in Coords, y \in Coords, z \in Coords}
Angles == {-90, 0, 90, 180, 270}
AxisStrings == {"x", "y", "z", "w"}
FaceRotations == {0, 90, 180, 270}

\* Six faces with a patch of the 16 x 16 atlas each, none with a rotation.
PlainFaces ==
    [north |-> [uv |-> <<0, 0, 4, 4>>],   east |-> [uv |-> <<4, 0, 8, 4>>],
     south |-> [uv |-> <<8, 0, 12, 4>>],  west |-> [uv |-> <<12, 0, 16, 4>>],
     up    |-> [uv |-> <<0, 4, 4, 8>>],   down |-> [uv |-> <<4, 4, 8, 8>>]]

Cuboid(from, to) == [from |-> from, to |-> to, faces |-> PlainFaces]

Document(elements) == [null |-> FALSE, elements |-> elements]

\* One element without rotation, every pair of corners.
CuboidDocs == {Document(<<Cuboid(f, t)>>) : f \in Points, t \in Points}

\* One element with a rotation: every angle, axis string and pivot.
RotatedDocs ==
    {Document(<<[from |-> <<0, 0, 0>>, to |-> <<2, 1, 1>>, faces |-> PlainFaces,
                 rotation |-> [angle |-> a, axis |-> s, origin |-> p]]>>) :
        a \in Angles, s \in AxisStrings, p \in Points}

\* One element, one of its faces with a declared rotation.
FaceRotationDocs ==
    {Document(<<[from |-> <<0, 0, 0>>, to |-> <<2, 2, 2>>,
                 faces |-> [PlainFaces EXCEPT ![JsonFaceOrder[k]] =
                               [uv |-> @.uv, rotation |-> r]]]>>) :
        k \in 1..6, r \in FaceRotations}

\* A record without one of its fields.
Without(r, field) == [f \in DOMAIN r \ {field} |-> r[f]]

\* Elements that lack a field the interpreter reads.
BrokenElements ==
    LET whole == Cuboid(<<0, 0, 0>>, <<1, 1, 1>>)
        pivoted == [from |-> <<0, 0, 0>>, to |-> <<1, 1, 1>>, faces |-> PlainFaces,
                    rotation |-> [angle |-> 90, axis |-> "y"]]
    IN  {Without(whole, f) : f \in {"from", "to", "faces"}}
        \cup {[whole EXCEPT !.faces = Without(@, JsonFaceOrder[k])] : k \in 1..6}
        \cup {[whole EXCEPT !.faces[JsonFaceOrder[k]] = [rotation |-> 90]] : k \in 1..6}
        \cup {pivoted}

\* A broken element alone, before a whole one and after a whole one.
BrokenDocs ==
    LET whole == Cuboid(<<1, 0, 0>>, <<0, 2, 1>>)
    IN  UNION {{Document(<<b>>), Document(<<b, whole>>), Document(<<whole, b>>)} :
                  b \in BrokenElements}

\* Two and three whole elements.
LongDocs ==
    LET a == Cuboid(<<0, 0, 0>>, <<2, 2, 2>>)
        b == Cuboid(<<2, 1, 0>>, <<0, 1, 2>>)
        c == [from |-> <<1, 1, 1>>, to |-> <<2, 0, 1>>, faces |-> PlainFaces,
              rotation |-> [angle |-> 90, axis |-> "y", origin |-> <<1, 0, 1>>]]
    IN  {Document(<<a, b>>), Document(<<b, a>>), Document(<<a, c, b>>),
         Document(<<c, c>>), Document(<<b, b, b>>)}

\* No document, a document without elements, a document with no element.
EmptyDocs == {Null, [null |-> FALSE], Document(<<>>)}

JsonDocs ==
    CuboidDocs \cup RotatedDocs \cup FaceRotationDocs \cup BrokenDocs
        \cup LongDocs \cup EmptyDocs

\* The documents a mounted instance is later updated with.
UpdateDocs ==
    EmptyDocs
        \cup {Document(<<Cuboid(<<MaxCoord, 0, 1>>, <<0, MaxCoord, 1>>)>>),
              Document(<<Cuboid(<<0, 0, 0>>, <<2, 2, 2>>),
                         [from |-> <<1, 1, 1>>, to |-> <<2, 0, 1>>, faces |-> PlainFaces,
                          rotation |-> [angle |-> 90, axis |-> "y",
                                        origin |-> <<1, 0, 1>>]]>>),
              Document(<<Cuboid(<<0, 0, 0>>, <<1, 1, 1>>),
                         Without(Cuboid(<<0, 0, 0>>, <<1, 1, 1>>), "faces")>>)}

JsonIdle ==
    /\ jsonIn = Null
    /\ jsonDoc = Null
    /\ children = <<>>
    /\ jsonThrew = FALSE
    /\ jsonBase = 0
    /\ jsonMounts = 0

\* new JsonModelObject(texture, json): a Group without children, then
\* updateModel(json, texture).
JsonInit ==
    \E json \in JsonDocs :
        LET run == UpdateModelOf(<<>>, json)
        IN  /\ jsonIn = json
            /\ jsonDoc = run.doc
            /\ children = run.children
            /\ jsonThrew = run.threw
            /\ jsonBase = 0
            /\ jsonMounts = 0

\* updateModel(json, texture) on the instance.  An instance whose
\* constructor ended in a TypeError was never handed to anyone.
UpdateModel(json) ==
    /\ jsonMounts < MaxMounts
    /\ ~(jsonMounts = 0 /\ jsonThrew)
    /\ LET run == UpdateModelOf(children, json)
       IN  /\ jsonIn' = json
           /\ jsonDoc' = run.doc
           /\ children' = run.children
           /\ jsonThrew' = run.threw
    /\ jsonBase' = Len(children)
    /\ jsonMounts' = jsonMounts + 1
    /\ UNCHANGED jsonRest

JsonNext == \E json \in UpdateDocs : UpdateModel(json)

(***************************************************************************)
(* PlayerObject.  The objects it creates are kept in a store, each under   *)
(* the place it was created at; a field of the PlayerObject holds the key  *)
(* of an object, or "null".  Poses are left out.  The documents of the     *)
(* hats and shoulder buddies are taken to be ones JsonModelObject mounts   *)
(* without a TypeError.                                                    *)
(***************************************************************************)
HatFields == <<"hat1", "hat2", "hat3", "hat4", "hat5", "hat6", "hat7", "hat8", "hat9">>
ShoulderBuddyFields ==
    <<"shoulderBuddy1", "shoulderBuddy2", "shoulderBuddy3", "shoulderBuddy4",
      "shoulderBuddy5", "shoulderBuddy6", "shoulderBuddy7", "shoulderBuddy8",
      "shoulderBuddy9">>
PlayerFields ==
    {"skin", "cape", "elytra", "ears", "hat", "shoulderBuddy"}
        \cup {HatFields[i] : i \in 1..9} \cup {ShoulderBuddyFields[i] : i \in 1..9}

\* Block i of the constructor, run when hatCanvases[i - 1] != null: the field
\* it assigns and names, and the place of its new JsonModelObject.
HatBlockField == <<"hat1", "hat2", "hat3", "hat4", "hat5", "hat6", "hat7", "hat8", "hat8">>
HatSites ==
    <<"hat@601", "hat@611", "hat@621", "hat@631", "hat@641", "hat@651",
      "hat@661", "hat@671", "hat@681">>
HatModels ==
    <<"hatCanvases[0].model", "hatCanvases[1].model", "hatCanvases[2].model",
      "hatCanvases[3].model", "hatCanvases[4].model", "hatCanvases[5].model",
      "hatCanvases[6].model", "hatCanvases[7].model", "hatCanvases[8].model">>

\* The same for shoulderBuddyCanvases[i - 1].
ShoulderBuddyBlockField ==
    <<"shoulderBuddy1", "shoulderBuddy2", "shoulderBuddy3", "shoulderBuddy4",
      "shoulderBuddy5", "shoulderBuddy6", "shoulderBuddy7", "shoulderBuddy8",
      "shoulderBuddy8">>
ShoulderBuddySites ==
    <<"buddy@705", "buddy@715", "buddy@725", "buddy@735", "buddy@745", "buddy@755",
      "buddy@765", "buddy@775", "buddy@785">>
ShoulderBuddyModels ==
    <<"shoulderBuddyCanvases[0].model", "shoulderBuddyCanvases[1].model",
      "shoulderBuddyCanvases[2].model", "shoulderBuddyCanvases[3].model",
      "shoulderBuddyCanvases[4].model", "shoulderBuddyCanvases[5].model",
      "shoulderBuddyCanvases[6].model", "shoulderBuddyCanvases[7].model",
      "shoulderBuddyCanvases[8].model">>

\* An Object3D as the constructor leaves it: its name, the object it was
\* added to, its visible flag and, for a JsonModelObject, its document.
Object3D(name, parent, visible, model) ==
    [name |-> name, parent |-> parent, visible |-> visible, model |-> model]

\* this.<field> = <a new object created at site>.
Assign(p, field, site, object) ==
    [fields |-> [p.fields EXCEPT ![field] = site],
     objects |-> [k \in DOMAIN p.objects \cup {site} |->
                     IF k = site THEN object ELSE p.objects[k]]]

\* The hat blocks from block i on.
RECURSIVE HatBlocks(_, _, _)
HatBlocks(p, i, hats) ==
    IF i > 9 THEN p
    ELSE HatBlocks(
            IF hats[i]
            THEN Assign(p, HatBlockField[i], HatSites[i],
                        Object3D(HatBlockField[i], "skin.head", TRUE, HatModels[i]))
            ELSE p,
            i + 1, hats)

\* The shoulder buddy blocks from block i on.
RECURSIVE ShoulderBuddyBlocks(_, _, _)
ShoulderBuddyBlocks(p, i, buddies) ==
    IF i > 9 THEN p
    ELSE ShoulderBuddyBlocks(
            IF buddies[i]
            THEN Assign(p, ShoulderBuddyBlockField[i], ShoulderBuddySites[i],
                        Object3D(ShoulderBuddyBlockField[i], "player", TRUE,
                                 ShoulderBuddyModels[i]))
            ELSE p,
            i + 1, buddies)

\* new PlayerObject(...): hats[i] and buddies[i] tell whether entry i - 1 of
\* hatCanvases and of shoulderBuddyCanvases is not null.
PlayerObjectBuilt(hats, buddies) ==
    LET p0 == [fields |-> [f \in PlayerFields |-> "null"], objects |-> <<>>]
        p1 == Assign(p0, "skin", "skin@555", Object3D("skin", "player", TRUE, "none"))
        p2 == Assign(p1, "cape", "cape@560", Object3D("cape", "player", TRUE, "none"))
        p3 == Assign(p2, "elytra", "elytra@568", Object3D("elytra", "player", FALSE, "none"))
        p4 == Assign(p3, "ears", "ears@575", Object3D("ears", "skin.head", FALSE, "none"))
        p5 == Assign(p4, "hat", "hat@582", Object3D("hat", "skin.head", TRUE, "hatModel"))
        p6 == HatBlocks(p5, 1, hats)
        p7 == ShoulderBuddyBlocks(p6, 1, buddies)
    IN  Assign(p7, "shoulderBuddy", "buddy@799",
               Object3D("shoulderbuddy", "player", TRUE, "shoulderBuddyModel"))

\* this.<field>.visible = value.
SetVisible(p, field, value) ==
    [p EXCEPT !.objects[p.fields[field]].visible = value]

\* The canvas arrays the viewer hands over: 9 entries, at most MaxFilled of
\* them not null.
CanvasArrays ==
    {a \in [1..9 -> BOOLEAN] : Cardinality({i \in 1..9 : a[i]}) <= MaxFilled}

PlayerIdle ==
    /\ hatCanvases = [i \in 1..9 |-> FALSE]
    /\ shoulderBuddyCanvases = [i \in 1..9 |-> FALSE]
    /\ player = PlayerObjectBuilt([i \in 1..9 |-> FALSE], [i \in 1..9 |-> FALSE])

PlayerInit ==
    \E hats \in CanvasArrays, buddies \in CanvasArrays :
        /\ hatCanvases = hats
        /\ shoulderBuddyCanvases = buddies
        /\ player = PlayerObjectBuilt(hats, buddies)

\* set backEquipment(value)
SetBackEquipment(value) ==
    /\ player' = SetVisible(SetVisible(player, "cape", value = "cape"),
                            "elytra", value = "elytra")
    /\ UNCHANGED <<hatCanvases, shoulderBuddyCanvases>>
    /\ UNCHANGED playerRest

\* set setHat(value)
SetHat ==
    /\ player' = SetVisible(player, "hat", TRUE)
    /\ UNCHANGED <<hatCanvases, shoulderBuddyCanvases>>
    /\ UNCHANGED playerRest

\* set setShoulderBuddy(value)
SetShoulderBuddy ==
    /\ player' = SetVisible(player, "shoulderBuddy", TRUE)
    /\ UNCHANGED <<hatCanvases, shoulderBuddyCanvases>>
    /\ UNCHANGED playerRest

PlayerNext ==
    \/ \E value \in {"cape", "elytra", "null"} : SetBackEquipment(value)
    \/ SetHat
    \/ SetShoulderBuddy

(***************************************************************************)
(* SkinViewer: the render loop.  window.requestAnimationFrame hands out an *)
(* id and queues the callback; the browser later takes a queued callback   *)
(* and runs it (draw).  An id is kept only to cancel a request, so an id   *)
(* that is neither queued, nor stored, nor being run is handed out again.  *)
(* Animation functions run inside draw() and may use the viewer.  A lost   *)
(* context is marked lost at once; the webglcontextlost event is delivered *)
(* by a later task.                                                        *)
(***************************************************************************)
FrameIds == 1..MaxFrames

FreeIds == FrameIds \ (frames \cup {animationID, running})

\* The id window.requestAnimationFrame returns.
RequestAnimationFrame == CHOOSE f \in FreeIds : \A g \in FreeIds : f <= g

LoopIdle ==
    /\ renderPaused = TRUE
    /\ disposed = FALSE
    /\ animationID = 0
    /\ frames = {}
    /\ running = 0
    /\ contextLost = FALSE
    /\ lostQueued = FALSE

\* new SkinViewer(options): the end of the constructor.
LoopInit ==
    \E paused \in BOOLEAN :
        /\ renderPaused = paused
        /\ disposed = FALSE
        /\ animationID = IF paused THEN 0 ELSE 1
        /\ frames = IF paused THEN {} ELSE {1}
        /\ running = 0
        /\ contextLost = FALSE
        /\ lostQueued = FALSE

\* set renderPaused(value), from outside or from an animation function.
SetRenderPaused(value) ==
    /\ renderPaused' = value
    /\ IF value /\ animationID # 0
       THEN /\ frames' = frames \ {animationID}
            /\ animationID' = 0
       ELSE IF ~value /\ ~disposed /\ ~contextLost /\ animationID = 0
       THEN /\ FreeIds # {}
            /\ animationID' = RequestAnimationFrame
            /\ frames' = frames \cup {RequestAnimationFrame}
       ELSE UNCHANGED <<animationID, frames>>
    /\ UNCHANGED <<disposed, running, contextLost, lostQueued>>
    /\ UNCHANGED loopRest

\* The browser runs a queued callback: draw() up to the animation functions.
DrawBegin(f) ==
    /\ running = 0
    /\ f \in frames
    /\ frames' = frames \ {f}
    /\ running' = f
    /\ UNCHANGED <<renderPaused, disposed, animationID, contextLost, lostQueued>>
    /\ UNCHANGED loopRest

\* draw(), after the animation functions: render() and the next request.
DrawEnd ==
    /\ running # 0
    /\ FreeIds # {}
    /\ animationID' = RequestAnimationFrame
    /\ frames' = frames \cup {RequestAnimationFrame}
    /\ running' = 0
    /\ UNCHANGED <<renderPaused, disposed, contextLost, lostQueued>>
    /\ UNCHANGED loopRest

\* The context is lost: isContextLost() is true from now on, the event is queued.
LoseContext ==
    /\ running = 0
    /\ ~contextLost
    /\ contextLost' = TRUE
    /\ lostQueued' = TRUE
    /\ UNCHANGED <<renderPaused, disposed, animationID, frames, running>>
    /\ UNCHANGED loopRest

\* webglcontextlost is delivered; dispose() has removed the listener.
OnContextLost ==
    /\ running = 0
    /\ lostQueued
    /\ lostQueued' = FALSE
    /\ IF ~disposed /\ animationID # 0
       THEN /\ frames' = frames \ {animationID}
            /\ animationID' = 0
       ELSE UNCHANGED <<animationID, frames>>
    /\ UNCHANGED <<renderPaused, disposed, running, contextLost>>
    /\ UNCHANGED loopRest

\* The context is restored and webglcontextrestored is delivered.
OnContextRestored ==
    /\ running = 0
    /\ contextLost
    /\ ~lostQueued
    /\ contextLost' = FALSE
    /\ IF ~renderPaused /\ ~disposed /\ animationID = 0
       THEN /\ FreeIds # {}
            /\ animationID' = RequestAnimationFrame
            /\ frames' = frames \cup {RequestAnimationFrame}
       ELSE UNCHANGED <<animationID, frames>>
    /\ UNCHANGED <<renderPaused, disposed, running, lostQueued>>
    /\ UNCHANGED loopRest

\* dispose(), from outside or from an animation function.
Dispose ==
    /\ disposed' = TRUE
    /\ IF animationID # 0
       THEN /\ frames' = frames \ {animationID}
            /\ animationID' = 0
       ELSE UNCHANGED <<animationID, frames>>
    /\ UNCHANGED <<renderPaused, running, contextLost, lostQueued>>
    /\ UNCHANGED loopRest

LoopNext ==
    \/ \E value \in BOOLEAN : SetRenderPaused(value)
    \/ \E f \in FrameIds : DrawBegin(f)
    \/ DrawEnd
    \/ LoseContext
    \/ OnContextLost
    \/ OnContextRestored
    \/ Dispose

(***************************************************************************)
(* SkinViewer: the load operations.  An image is known by its name; the    *)
(* canvas of an operation holds the name of the image last drawn on it.    *)
(* Image "B" is one isSlimSkin holds of, image "A" one it does not hold    *)
(* of.  A remote source becomes an image when its load completes.          *)
(* An option that is absent has the value "undefined".                     *)
(***************************************************************************)
Images == {"A", "B"}

LoadOps == {"skin", "cape", "ears", "hat", "shoulderBuddy"}

NullSource == [kind |-> "null"]

TextureSource(image) == [kind |-> "texture", image |-> image]

RemoteImage(image) == [kind |-> "remote", image |-> image]

MakeVisible == {"undefined", "true", "false"}

SkinLoadOptions ==
    [makeVisible : MakeVisible,
     model : {"undefined", "auto-detect", "default", "slim"},
     ears : {"undefined", "true", "load-only"}]

CapeLoadOptions ==
    [makeVisible : MakeVisible, backEquipment : {"undefined", "cape", "elytra"}]

CustomModelOptions == [makeVisible : MakeVisible]

EarsLoadOptions ==
    [makeVisible : MakeVisible, textureType : {"undefined", "standalone", "skin"}]

LoadOptions(op) ==
    CASE op = "skin" -> SkinLoadOptions
      [] op = "cape" -> CapeLoadOptions
      [] op = "ears" -> EarsLoadOptions
      [] OTHER -> CustomModelOptions

\* inferModelType(canvas), for a canvas the image was drawn on.
InferModelType(image) == IF image = "B" THEN "slim" ELSE "default"

\* What a canvas holds: nothing yet, or an image (the whole of it, or the
\* ears cut out of a skin).
Blank == [image |-> "none", part |-> "none"]

Drawn(image, part) == [image |-> image, part |-> part]

\* The part of the viewer the load operations work on.
Viewer == [player |-> player, loaded |-> loaded, modelType |-> modelType]

Visible(p, field) == p.objects[p.fields[field]].visible

\* PlayerObject: set backEquipment(value), with one equipment left as it is.
SetBackEquipmentKeepsOther(p, value) ==
    IF value = "null"
    THEN SetVisible(SetVisible(p, "cape", FALSE), "elytra", FALSE)
    ELSE SetVisible(p, value, TRUE)

\* PlayerObject: set backEquipment(value).
SetBackEquipmentOf(p, value) ==
    SetVisible(SetVisible(p, "cape", value = "cape"), "elytra", value = "elytra")

\* PlayerObject: get backEquipment().
GetBackEquipment(p) ==
    IF Visible(p, "cape") THEN "cape"
    ELSE IF Visible(p, "elytra") THEN "elytra"
    ELSE "null"

\* loadSkin(source, options), source a texture source.
LoadSkinOf(v, image, options) ==
    LET type == IF options.model \in {"undefined", "auto-detect"}
                THEN InferModelType(image)
                ELSE options.model
        v1 == [v EXCEPT !.loaded.skin = Drawn(image, "skin"), !.modelType = type]
        v2 == IF options.makeVisible # "false"
              THEN [v1 EXCEPT !.player = SetVisible(@, "skin", TRUE)]
              ELSE v1
        v3 == IF options.ears \in {"true", "load-only"}
              THEN [v2 EXCEPT !.loaded.ears = Drawn(image, "ears of skin")]
              ELSE v2
    IN  IF options.ears = "true"
        THEN [v3 EXCEPT !.player = SetVisible(@, "ears", TRUE)]
        ELSE v3

\* resetSkin()
ResetSkinOf(v) == [v EXCEPT !.player = SetVisible(@, "skin", FALSE)]

\* loadCape(source, options), source a texture source.
LoadCapeOf(v, image, options) ==
    LET v1 == [v EXCEPT !.loaded.cape = Drawn(image, "cape")]
    IN  IF options.makeVisible # "false"
        THEN [v1 EXCEPT !.player =
                 SetBackEquipmentOf(@, IF options.backEquipment = "undefined"
                                       THEN "cape"
                                       ELSE options.backEquipment)]
        ELSE v1

\* resetCape()
ResetCapeOf(v) == [v EXCEPT !.player = SetBackEquipmentOf(@, "null")]

\* loadHat(source, options), source a texture source.
LoadHatOf(v, image, options) ==
    [v EXCEPT !.loaded.hat = Drawn(image, "model"),
              !.player = SetVisible(@, "hat", TRUE)]

\* resetHat()
ResetHatOf(v) == [v EXCEPT !.player = SetVisible(@, "hat", FALSE)]

\* loadShoulderBuddy(source, options), source a texture source.
LoadShoulderBuddyOf(v, image, options) ==
    [v EXCEPT !.loaded.shoulderBuddy = Drawn(image, "model"),
              !.player = SetVisible(@, "shoulderBuddy", TRUE)]

\* resetShoulderBuddy()
ResetShoulderBuddyOf(v) ==
    [v EXCEPT !.player = SetVisible(@, "shoulderBuddy", FALSE)]

\* loadEars(source, options), source a texture source.
LoadEarsOf(v, image, options) ==
    LET part == IF options.textureType = "skin" THEN "ears of skin" ELSE "ears"
        v1 == [v EXCEPT !.loaded.ears = Drawn(image, part)]
    IN  IF options.makeVisible # "false"
        THEN [v1 EXCEPT !.player = SetVisible(@, "ears", TRUE)]
        ELSE v1

\* resetEars()
ResetEarsOf(v) == [v EXCEPT !.player = SetVisible(@, "ears", FALSE)]

\* load<Op>(source, options): the branch for null and the branch for a
\* texture source.  (The branch for a remote source only starts the load.)
LoadOf(v, op, source, options) ==
    IF source.kind = "null"
    THEN CASE op = "skin" -> ResetSkinOf(v)
           [] op = "cape" -> ResetCapeOf(v)
           [] op = "ears" -> ResetEarsOf(v)
           [] op = "hat" -> ResetHatOf(v)
           [] op = "shoulderBuddy" -> ResetShoulderBuddyOf(v)
    ELSE IF source.kind = "texture"
    THEN CASE op = "skin" -> LoadSkinOf(v, source.image, options)
           [] op = "cape" -> LoadCapeOf(v, source.image, options)
           [] op = "ears" -> LoadEarsOf(v, source.image, options)
           [] op = "hat" -> LoadHatOf(v, source.image, options)
           [] op = "shoulderBuddy" -> LoadShoulderBuddyOf(v, source.image, options)
    ELSE v

\* new SkinViewer(options): the PlayerObject as the constructor leaves it
\* when no skin, cape, ears, hat or shoulder buddy image is among the options.
ViewerPlayer(hats, buddies) ==
    SetVisible(SetVisible(SetVisible(SetVisible(
        PlayerObjectBuilt(hats, buddies),
        "skin", FALSE), "cape", FALSE), "hat", FALSE), "shoulderBuddy", FALSE)

NoSlots == [i \in 1..9 |-> FALSE]

LoadIdle ==
    /\ loaded = [op \in LoadOps |-> Blank]
    /\ modelType = "default"
    /\ loads = {}
    /\ called = [op \in LoadOps |-> <<>>]
    /\ issued = 0

\* new SkinViewer(options), options without numbered hats or shoulder buddies.
ViewerInit ==
    /\ hatCanvases = NoSlots
    /\ shoulderBuddyCanvases = NoSlots
    /\ player = ViewerPlayer(NoSlots, NoSlots)
    /\ LoadIdle

\* load<Op>(source, options) with null or a texture source.
Load(op, source, options) ==
    /\ source.kind # "remote"
    /\ player' = LoadOf(Viewer, op, source, options).player
    /\ loaded' = LoadOf(Viewer, op, source, options).loaded
    /\ modelType' = LoadOf(Viewer, op, source, options).modelType
    /\ UNCHANGED <<loads, called, issued, hatCanvases, shoulderBuddyCanvases>>
    /\ UNCHANGED loadRest

\* viewer.playerObject.backEquipment = value
AssignBackEquipment(value) ==
    /\ player' = SetBackEquipmentOf(player, value)
    /\ UNCHANGED <<loaded, modelType, loads, called, issued, hatCanvases,
                   shoulderBuddyCanvases>>
    /\ UNCHANGED loadRest

\* The texture sources handed over: both images as skins, one image otherwise.
TextureSources(op) ==
    {TextureSource(image) : image \in IF op = "skin" THEN Images ELSE {"A"}}

\* load<Op>(null) has no options.
NoOptions == [makeVisible |-> "undefined"]

ViewerNext ==
    \/ \E op \in LoadOps : Load(op, NullSource, NoOptions)
    \/ \E op \in LoadOps :
           \E source \in TextureSources(op), options \in LoadOptions(op) :
               Load(op, source, options)
    \/ \E value \in {"cape", "elytra", "null"} : AssignBackEquipment(value)

\* The options of the calls made with a remote source.
RemoteOptions(op) ==
    CASE op = "skin" ->
             [makeVisible : {"undefined"}, model : {"undefined", "default"},
              ears : {"undefined"}]
      [] op = "cape" ->
             [makeVisible : {"undefined"}, backEquipment : {"undefined", "elytra"}]
      [] op = "ears" ->
             [makeVisible : {"undefined"}, textureType : {"undefined", "skin"}]
      [] OTHER -> [makeVisible : {"undefined"}]

\* The last two calls of an operation, oldest first.
Record(calls, call) ==
    IF Len(calls) < 2 THEN Append(calls, call) ELSE <<calls[2], call>>

\* load<Op>(source, options) with null or a remote source:
\* loadImage(source).then(image => this.load<Op>(image, options)).
Call(op, source, options) ==
    /\ issued < MaxCalls
    /\ source.kind # "texture"
    /\ issued' = issued + 1
    /\ called' = [called EXCEPT ![op] =
                     Record(@, [source |-> source, options |-> options])]
    /\ IF source.kind = "remote"
       THEN /\ loads' = loads \cup {[op |-> op, image |-> source.image,
                                     options |-> options, call |-> issued + 1]}
            /\ UNCHANGED <<player, loaded, modelType>>
       ELSE /\ player' = LoadOf(Viewer, op, source, options).player
            /\ loaded' = LoadOf(Viewer, op, source, options).loaded
            /\ modelType' = LoadOf(Viewer, op, source, options).modelType
            /\ UNCHANGED loads
    /\ UNCHANGED <<hatCanvases, shoulderBuddyCanvases>>
    /\ UNCHANGED loadRest

\* An image load completes: image => this.load<Op>(image, options).
ImageLoaded(load) ==
    /\ load \in loads
    /\ loads' = loads \ {load}
    /\ player' = LoadOf(Viewer, load.op, TextureSource(load.image), load.options).player
    /\ loaded' = LoadOf(Viewer, load.op, TextureSource(load.image), load.options).loaded
    /\ modelType' =
           LoadOf(Viewer, load.op, TextureSource(load.image), load.options).modelType
    /\ UNCHANGED <<called, issued, hatCanvases, shoulderBuddyCanvases>>
    /\ UNCHANGED loadRest

RemoteSources == {RemoteImage(image) : image \in Images}

RemoteNext ==
    \/ \E op \in LoadOps : Call(op, NullSource, NoOptions)
    \/ \E op \in LoadOps, source \in RemoteSources :
           \E options \in RemoteOptions(op) : Call(op, source, options)
    \/ \E load \in loads : ImageLoaded(load)

\* The statements of resetAllHats / resetAllShoulderBuddies from the i-th on:
\* if (this.playerObject.<field i>) this.playerObject.<field i>.visible = toShow == i.
RECURSIVE ResetAllFrom(_, _, _, _)
ResetAllFrom(p, fields, toShow, i) ==
    IF i > 9 THEN p
    ELSE ResetAllFrom(IF p.fields[fields[i]] # "null"
                      THEN SetVisible(p, fields[i], toShow = i)
                      ELSE p,
                      fields, toShow, i + 1)

\* resetAllHats(toShow)
ResetAllHatsOf(p, toShow) == ResetAllFrom(p, HatFields, toShow, 1)

\* resetAllShoulderBuddies(toShow)
ResetAllShoulderBuddiesOf(p, toShow) ==
    ResetAllFrom(p, ShoulderBuddyFields, toShow, 1)

\* new SkinViewer(options), options with numbered hats and shoulder buddies.
SlotsInit ==
    /\ \E hats \in CanvasArrays, buddies \in CanvasArrays :
           /\ Cardinality({i \in 1..9 : hats[i]})
                  + Cardinality({i \in 1..9 : buddies[i]}) <= MaxFilled
           /\ hatCanvases = hats
           /\ shoulderBuddyCanvases = buddies
           /\ player = ViewerPlayer(hats, buddies)
    /\ LoadIdle

ResetAllHats(toShow) ==
    /\ player' = ResetAllHatsOf(player, toShow)
    /\ UNCHANGED <<loaded, modelType, loads, called, issued, hatCanvases,
                   shoulderBuddyCanvases>>
    /\ UNCHANGED loadRest

ResetAllShoulderBuddies(toShow) ==
    /\ player' = ResetAllShoulderBuddiesOf(player, toShow)
    /\ UNCHANGED <<loaded, modelType, loads, called, issued, hatCanvases,
                   shoulderBuddyCanvases>>
    /\ UNCHANGED loadRest

\* The values handed over as toShow: the slot numbers, and two other numbers.
ToShow == 0..10

SlotsNext ==
    \/ \E toShow \in ToShow : ResetAllHats(toShow)
    \/ \E toShow \in ToShow : ResetAllShoulderBuddies(toShow)

(***************************************************************************)
(* The boxes of the cape, the elytra wings and the ears.                   *)
(***************************************************************************)
\* CapeObject: setCapeUVs(capeBox, 0, 0, 10, 16, 1)
CapeBoxUVs == SetCapeUVs(BoxGeometryUVs, 0, 0, 10, 16, 1)

\* A wing placed at the origin of the atlas, where the cape is.
WingBoxUVsAtOrigin == SetCapeUVs(BoxGeometryUVs, 0, 0, 10, 20, 2)

\* ElytraObject: setCapeUVs(leftWingBox, 22, 0, 10, 20, 2), the same for the
\* right wing.
WingBoxUVs == SetCapeUVs(BoxGeometryUVs, 22, 0, 10, 20, 2)

\* EarsObject: setUVs(earBox, 0, 0, 6, 6, 1, 14, 7)
EarBoxUVs == SetEarsUVs(BoxGeometryUVs, 0, 0, 6, 6, 1)

(***************************************************************************)
(* Specifications: one per component, the other components left at rest.   *)
(***************************************************************************)
InitUV == SkinIdle /\ PixIdle /\ ElytraIdle /\ JsonIdle /\ PlayerIdle /\ LoopIdle
    /\ LoadIdle /\ UVInit

SpecUV == InitUV /\ [][UVNext]_vars

InitSkin == UVIdle /\ PixIdle /\ ElytraIdle /\ JsonIdle /\ PlayerIdle /\ LoopIdle
    /\ LoadIdle /\ SkinInit

SpecSkin == InitSkin /\ [][SkinNext]_vars

InitPix == UVIdle /\ SkinIdle /\ ElytraIdle /\ JsonIdle /\ PlayerIdle /\ LoopIdle
    /\ LoadIdle /\ PixInit

SpecPix == InitPix /\ [][PixNext]_vars

InitOrder == UVIdle /\ SkinIdle /\ ElytraIdle /\ JsonIdle /\ PlayerIdle /\ LoopIdle
    /\ LoadIdle /\ OrderInit

SpecOrder == InitOrder /\ [][OrderNext]_vars

InitElytra == UVIdle /\ SkinIdle /\ PixIdle /\ JsonIdle /\ PlayerIdle /\ LoopIdle
    /\ LoadIdle /\ ElytraInit

SpecElytra == InitElytra /\ [][ElytraNext]_vars

InitJson == UVIdle /\ SkinIdle /\ PixIdle /\ ElytraIdle /\ PlayerIdle /\ LoopIdle
    /\ LoadIdle /\ JsonInit

SpecJson == InitJson /\ [][JsonNext]_vars

InitPlayer == UVIdle /\ SkinIdle /\ PixIdle /\ ElytraIdle /\ JsonIdle /\ LoopIdle
    /\ LoadIdle /\ PlayerInit

SpecPlayer == InitPlayer /\ [][PlayerNext]_vars

InitLoop == UVIdle /\ SkinIdle /\ PixIdle /\ ElytraIdle /\ JsonIdle /\ PlayerIdle
    /\ LoadIdle /\ LoopInit

SpecLoop == InitLoop /\ [][LoopNext]_vars

InitViewer == UVIdle /\ SkinIdle /\ PixIdle /\ ElytraIdle /\ JsonIdle /\ LoopIdle
    /\ ViewerInit

SpecViewer == InitViewer /\ [][ViewerNext]_vars

SpecRemote == InitViewer /\ [][RemoteNext]_vars

InitSlots == UVIdle /\ SkinIdle /\ PixIdle /\ ElytraIdle /\ JsonIdle /\ LoopIdle
    /\ SlotsInit

SpecSlots == InitSlots /\ [][SlotsNext]_vars

(***************************************************************************)
(* Reading the uv attribute back.                                          *)
(***************************************************************************)
FaceNames == <<"right", "left", "top", "bottom", "front", "back">>
FaceIndex(name) == CHOOSE f \in 1..6 : FaceNames[f] = name
FaceSlots(f) == (4 * (f - 1) + 1)..(4 * f)

\* The pixel a vertex stands for: x = U * W, y = H * (1 - V).
PixelX(vtx, W) == FracScale(vtx.x, W)
PixelY(vtx, H) == FracScale(OneMinus(vtx.y), H)
IsPixel(vtx, W, H, px, py) ==
    /\ FracIsInt(PixelX(vtx, W)) /\ FracToInt(PixelX(vtx, W)) = px
    /\ FracIsInt(PixelY(vtx, H)) /\ FracToInt(PixelY(vtx, H)) = py

Perms4 == {p \in [1..4 -> 1..4] : \A i, j \in 1..4 : i # j => p[i] # p[j]}

\* The face's four slots are the four corners of [x1,x2]x[y1,y2], each corner once.
FaceIsRect(attr, f, W, H, x1, y1, x2, y2) ==
    LET corners == << <<x1, y1>>, <<x2, y1>>, <<x1, y2>>, <<x2, y2>> >>
    IN  \E p \in Perms4 :
            \A i \in 1..4 :
                IsPixel(attr[4 * (f - 1) + i], W, H, corners[p[i]][1], corners[p[i]][2])

\* The attribute holds, face by face, the corners of the unfolded cross of a
\* (w, h, d) box placed at (u, v) on a W x H atlas.
IsUnfoldedCross(attr, u, v, w, h, d, W, H) ==
    LET R(f, x1, y1, x2, y2) == FaceIsRect(attr, FaceIndex(f), W, H, x1, y1, x2, y2)
    IN  /\ DOMAIN attr = 1..24
        /\ R("top", u + d, v, u + w + d, v + d)
        /\ R("bottom", u + w + d, v, u + 2 * w + d, v + d)
        /\ R("left", u, v + d, u + d, v + d + h)
        /\ R("front", u + d, v + d, u + w + d, v + d + h)
        /\ R("right", u + w + d, v + d, u + w + 2 * d, v + d + h)
        /\ R("back", u + w + 2 * d, v + d, u + 2 * w + 2 * d, v + d + h)
        /\ (w > 0 /\ h > 0 /\ d > 0 =>
                \A f \in 1..6 : Cardinality({attr[i] : i \in FaceSlots(f)}) = 4)

\* C1: un-normalizing the 24 written UVs (x = U*W, y = H*(1-V)) gives, face by
\* face, the four corners of the face's rectangle in the unfolded cross: top
\* [u+d,u+w+d]x[v,v+d], bottom [u+w+d,u+2w+d]x[v,v+d], left [u,u+d]x[v+d,v+d+h],
\* front [u+d,u+w+d]x[v+d,v+d+h], right [u+w+d,u+w+2d]x[v+d,v+d+h], back
\* [u+w+2d,u+2w+2d]x[v+d,v+d+h]; setUVs writes all 24 slots, and the four
\* entries of a face are four distinct corners when the box has no zero size.
C1_UnfoldedCross ==
    uvPc = "set" =>
        /\ Len(SetUVsArray(uvCall.u, uvCall.v, uvCall.width, uvCall.height, uvCall.depth,
                            TextureSize(uvCall.fn)[1], TextureSize(uvCall.fn)[2])) = 24
        /\ IsUnfoldedCross(uvAttr, uvCall.u, uvCall.v, uvCall.width, uvCall.height,
                           uvCall.depth, TextureSize(uvCall.fn)[1], TextureSize(uvCall.fn)[2])

\* A projected box with three positive dimensions, on each of the three atlases.
C1_Witness ==
    /\ uvPc = "set"
    /\ uvCall.width = 2 /\ uvCall.height = 3 /\ uvCall.depth = 1
    /\ uvCall.u = 1 /\ uvCall.v = 2
    /\ uvCall.fn = "setUVs"
    /\ uvAttr # BoxGeometryUVs

\* The rectangle a face covers in UV space: <<xmin, ymin, xmax, ymax>> of its slots.
RECURSIVE FoldFrac(_, _, _)
FoldFrac(seq, pick(_, _), acc) ==
    IF seq = <<>> THEN acc ELSE FoldFrac(Tail(seq), pick, pick(acc, Head(seq)))

FaceBox(attr, f) ==
    LET xs == [i \in 1..4 |-> attr[4 * (f - 1) + i].x]
        ys == [i \in 1..4 |-> attr[4 * (f - 1) + i].y]
    IN  << FoldFrac(Tail(xs), FracMin, Head(xs)), FoldFrac(Tail(ys), FracMin, Head(ys)),
           FoldFrac(Tail(xs), FracMax, Head(xs)), FoldFrac(Tail(ys), FracMax, Head(ys)) >>

\* Two rectangles share interior area.
BoxesOverlap(a, b) ==
    /\ FracLess(FracMax(a[1], b[1]), FracMin(a[3], b[3]))
    /\ FracLess(FracMax(a[2], b[2]), FracMin(a[4], b[4]))

NoFaceOverlap(attr) ==
    \A f, g \in 1..6 : f # g => ~BoxesOverlap(FaceBox(attr, f), FaceBox(attr, g))

InUnitSquare(attr) ==
    \A i \in DOMAIN attr :
        /\ FracLeq(Frac(0, 1), attr[i].x) /\ FracLeq(attr[i].x, Frac(1, 1))
        /\ FracLeq(Frac(0, 1), attr[i].y) /\ FracLeq(attr[i].y, Frac(1, 1))

\* C2 as stated: for every (width, height, depth, u, v) projected with the skin
\* convention the six face rectangles lie inside the atlas and no two overlap.
C2_AsStated ==
    (uvPc = "set" /\ uvCall.fn = "setSkinUVs") =>
        (InUnitSquare(uvAttr) /\ NoFaceOverlap(uvAttr))

\* C2 (amended): with the skin convention no two of the six face rectangles
\* overlap in area, for every non-negative (width, height, depth, u, v); the
\* rectangles lie inside the atlas exactly when the unfolded cross fits it,
\* u + 2*width + 2*depth <= 64 and v + depth + height <= 64.
C2_SkinFaces ==
    (uvPc = "set" /\ uvCall.fn = "setSkinUVs") =>
        /\ NoFaceOverlap(uvAttr)
        /\ InUnitSquare(uvAttr) <=>
                (/\ uvCall.u + 2 * uvCall.width + 2 * uvCall.depth <= 64
                 /\ uvCall.v + uvCall.depth + uvCall.height <= 64)

\* A skin box whose cross fits the atlas exactly up to its right and lower edge.
C2_Witness ==
    /\ uvPc = "set" /\ uvCall.fn = "setSkinUVs"
    /\ uvCall.width = 3 /\ uvCall.height = 2 /\ uvCall.depth = 3
    /\ uvCall.u + 2 * uvCall.width + 2 * uvCall.depth = 64
    /\ uvCall.v + uvCall.depth + uvCall.height = 64
    /\ InUnitSquare(uvAttr)

(***************************************************************************)
(* SkinObject.modelType                                                    *)
(***************************************************************************)
LastAssigned == IF assigned = <<>> THEN "default" ELSE assigned[Len(assigned)]

\* C3: after modelType = v, inner arm scale is (3 if slim else 4, 12, 4), outer
\* arm scale (3.5 if slim else 4.5, 12.5, 4.5), the arm pivots sit at x = -0.5 /
\* +0.5 (right / left) if slim else -1 / +1, and the four arm boxes carry the
\* unfolded cross at 40,16 / 40,32 / 32,48 / 48,48 of width 3 if slim else 4;
\* in no state are some of these values slim and others classic.
C3_ArmsFollowModelType ==
    LET isSlim == LastAssigned = "slim"
        w == IF isSlim THEN 3 ELSE 4
        Arm(l, sx, sy, sz, u, v) ==
            /\ skin.box[l].scale = <<sx, sy, sz>>
            /\ IsUnfoldedCross(skin.box[l].uv, u, v, w, 12, 4, 64, 64)
    IN  /\ Arm("rightArm", IF isSlim THEN 30 ELSE 40, 120, 40, 40, 16)
        /\ Arm("leftArm", IF isSlim THEN 30 ELSE 40, 120, 40, 32, 48)
        /\ Arm("rightArm2", IF isSlim THEN 35 ELSE 45, 125, 45, 40, 32)
        /\ Arm("leftArm2", IF isSlim THEN 35 ELSE 45, 125, 45, 48, 48)
        /\ skin.pos["rightArmPivot"][1] = (IF isSlim THEN -5 ELSE -10)
        /\ skin.pos["leftArmPivot"][1] = (IF isSlim THEN 5 ELSE 10)

\* The arms have gone slim and back to classic, and are slim again.
C3_Witness ==
    /\ Len(assigned) >= 3
    /\ assigned[Len(assigned)] = "slim"
    /\ assigned[Len(assigned) - 1] = "default"
    /\ assigned[Len(assigned) - 2] = "slim"
    /\ skin.box["leftArm2"].scale[1] = 35

\* What modelType governs: the two arms' meshes and pivots.
ArmState(s) ==
    [box |-> [l \in ArmLayers |-> [scale |-> s.box[l].scale, uv |-> s.box[l].uv]],
     pivot |-> <<s.pos["rightArmPivot"], s.pos["leftArmPivot"]>>]

\* C4: the arm geometry / UV / pivot state depends only on the last assigned
\* value: it is the state one assignment of that value gives a new SkinObject
\* (so assigning a value twice is assigning it once, and histories ending in
\* the same value agree), an assignment of the current value changes nothing,
\* and the getter returns "slim" iff the last assigned value is "slim"
\* ("default" right after construction).
C4_LastAssignmentDecides ==
    [][ /\ (assigned' # assigned =>
                /\ ArmState(skin') = ArmState(SetModelTypeOf(SkinObjectBuilt, LastAssigned'))
                /\ (GetModelType(skin') = "slim") <=> (LastAssigned' = "slim")
                /\ (LastAssigned' = LastAssigned => skin' = skin))
        /\ (assigned = <<>> => GetModelType(skin) = "default") ]_vars

\* The same value has been assigned twice in a row, after the other one.
C4_Witness ==
    /\ Len(assigned) >= 3
    /\ assigned[Len(assigned)] = "slim"
    /\ assigned[Len(assigned) - 1] = "slim"
    /\ assigned[Len(assigned) - 2] = "default"
    /\ GetModelType(skin) = "slim"

(***************************************************************************)
(* convertSkinTo1_8 and isSlimSkin                                         *)
(***************************************************************************)
\* The pixels of the rectangle (x, y, w, h) of the 64-wide layout, on the canvas.
RectPixels(x, y, w, h) ==
    (Scaled(x, canvas.width)..(Scaled(x + w, canvas.width) - 1))
        \X (Scaled(y, canvas.width)..(Scaled(y + h, canvas.width) - 1))

\* The same rectangle as <<left, top, right, bottom>> (right and bottom excluded),
\* and whether two such rectangles share no pixel.
ScaledRect(x, y, w, h) ==
    <<Scaled(x, canvas.width), Scaled(y, canvas.width),
      Scaled(x + w, canvas.width), Scaled(y + h, canvas.width)>>
RectsDisjoint(a, b) ==
    \/ a[3] <= b[1] \/ b[3] <= a[1] \/ a[4] <= b[2] \/ b[4] <= a[2]
    \/ a[1] >= a[3] \/ a[2] >= a[4] \/ b[1] >= b[3] \/ b[2] >= b[4]

SourcePixels(c) == RectPixels(c[1], c[2], c[3], c[4])
DestPixels(c) == RectPixels(c[5], c[6], c[3], c[4])
AllPixels == (0..(canvas.width - 1)) \X (0..(canvas.width - 1))
PixelAt(ctx, p) == ctx.rows[p[2]][p[1]]
Original(p) == ImagePixel(pixIn, p[1], p[2])

\* C5: after convertSkinTo1_8(ctx, width), s = width/64: for each of the 12
\* rules the pixel at destination (s*dX + i, s*dY + j) is the original pixel
\* at source (s*sX + (s*w - 1 - i), s*sY + j), 0 <= i < s*w, 0 <= j < s*h, and
\* every pixel outside the 12 destination rectangles is unchanged.
C5_MirroredCopy ==
    (pixPc = "converted" /\ copied = DOMAIN CopySkinCalls) =>
        LET s(n) == Scaled(n, canvas.width)
        IN  /\ \A k \in DOMAIN CopySkinCalls :
                    LET c == CopySkinCalls[k]
                    IN  \A i \in 0..(s(c[3]) - 1) : \A j \in 0..(s(c[4]) - 1) :
                            PixelAt(canvas, <<s(c[5]) + i, s(c[6]) + j>>) =
                                Original(<<s(c[1]) + (s(c[3]) - 1 - i), s(c[2]) + j>>)
            /\ \A p \in AllPixels \ UNION {DestPixels(CopySkinCalls[k]) : k \in DOMAIN CopySkinCalls} :
                    PixelAt(canvas, p) = Original(p)

\* A converted 64-wide skin: the top of the left leg starts with the mirror
\* image of the top of the right leg, whose last pixel is (7, 16).
C5_Witness ==
    /\ pixPc = "converted"
    /\ canvas.width = 64
    /\ PixelAt(canvas, <<20, 48>>) = <<7, 16, 0, 255>>
    /\ PixelAt(canvas, <<7, 16>>) = <<7, 16, 0, 255>>

\* C6: the 12 source rectangles are pairwise disjoint, the 12 destination
\* rectangles are pairwise disjoint and no destination meets a source; so
\* whatever calls have been made, in whatever order, no source pixel has been
\* written, and once all 12 are made the canvas is the one convertSkinTo1_8
\* produces.
C6_OrderIndependent ==
    LET K == DOMAIN CopySkinCalls
        Src(k) == ScaledRect(CopySkinCalls[k][1], CopySkinCalls[k][2],
                             CopySkinCalls[k][3], CopySkinCalls[k][4])
        Dst(k) == ScaledRect(CopySkinCalls[k][5], CopySkinCalls[k][6],
                             CopySkinCalls[k][3], CopySkinCalls[k][4])
    IN  /\ \A a, b \in K : a # b =>
                /\ RectsDisjoint(Src(a), Src(b))
                /\ RectsDisjoint(Dst(a), Dst(b))
        /\ \A a, b \in K : RectsDisjoint(Dst(a), Src(b))
        /\ \A a \in K : \A p \in SourcePixels(CopySkinCalls[a]) :
                PixelAt(canvas, p) = Original(p)
        /\ copied = K => canvas = ConvertSkinTo1_8Of(DrawImage(pixIn), canvas.width)

\* All 12 calls made, the last one (Back Arm) before the first one (Top Leg).
C6_Witness ==
    /\ copied = DOMAIN CopySkinCalls \ {1}
    /\ pixPc = "converting"
    /\ canvas.width = 64
    /\ PixelAt(canvas, <<44, 52>>) = <<55, 20, 0, 255>>
    /\ PixelAt(canvas, <<20, 48>>) = <<20, 48, 0, 255>>

\* Some pixel of the four probe rectangles, scaled by width/64, is not opaque.
ProbeHasHole ==
    \E r \in {<<50, 16, 2, 4>>, <<54, 20, 2, 12>>, <<42, 48, 2, 4>>, <<46, 52, 2, 12>>} :
        \E p \in RectPixels(r[1], r[2], r[3], r[4]) : PixelAt(canvas, p)[4] # 255

\* C7: isSlimSkin(ctx, width) returns true iff some pixel inside the probe
\* rectangles (50,16,2,4), (54,20,2,12), (42,48,2,4), (46,52,2,12), scaled by
\* width/64, has alpha other than 255 (so pixels outside them never matter),
\* and the call leaves the canvas as it was.
C7_SlimIffProbeHole ==
    [][(slimResult' # slimResult /\ slimResult' # <<>>) =>
            /\ slimResult'[1] = ProbeHasHole
            /\ canvas' = canvas]_vars

\* A skin whose only non-opaque pixel is the last pixel of the last probe
\* rectangle, half transparent, is found slim.
C7_Witness ==
    /\ slimResult = <<TRUE>>
    /\ pixPc = "loaded"
    /\ pixIn.width = 64
    /\ pixIn.holes = (<<47, 63>> :> 254)

(***************************************************************************)
(* ElytraObject.updateRightWing                                            *)
(***************************************************************************)
\* The right wing's pose is the mirror image of the left wing's.
MirrorLaw(left, right) ==
    /\ right.position[1] = -left.position[1]
    /\ right.position[2] = left.position[2]
    /\ right.rotation[1] = left.rotation[1]
    /\ right.rotation[2] = -left.rotation[2]
    /\ right.rotation[3] = -left.rotation[3]

\* C8: after updateRightWing(), for any left-wing pose (px, py, rx, ry, rz), the
\* right wing has position.x = -px, position.y = py, rotation.x = rx,
\* rotation.y = -ry, rotation.z = -rz; the call leaves the left wing as it
\* was, a second call changes nothing, and the law holds right after
\* construction.
C8_MirrorLaw ==
    /\ (elytraOp = "new" => MirrorLaw(leftWing, rightWing))
    /\ [][elytraOp' = "update" =>
                /\ MirrorLaw(leftWing', rightWing')
                /\ leftWing' = leftWing
                /\ (elytraOp = "update" => rightWing' = rightWing)]_vars

\* The left wing was given a negative y-rotation and a positive x-position,
\* and updateRightWing() has mirrored both.
C8_Witness ==
    /\ elytraOp = "update"
    /\ leftWing.rotation[2] = -1 /\ rightWing.rotation[2] = 1
    /\ leftWing.position[1] = 1 /\ rightWing.position[1] = -1

\* C9: the mirror sync is on demand only: a write to the left wing's position
\* or rotation leaves the right wing's position and rotation as they were (so
\* the mirror law may fail until the next call), and the next
\* updateRightWing() restores the law.
C9_SyncOnDemand ==
    [][ /\ (leftWing' # leftWing => rightWing' = rightWing)
        /\ ((~MirrorLaw(leftWing, rightWing) /\ elytraOp' = "update") =>
                MirrorLaw(leftWing', rightWing')) ]_vars

\* The left wing has been raised and the right wing has not followed yet.
C9_Witness ==
    /\ elytraOp = "left"
    /\ leftWing.position[2] = 1
    /\ rightWing.position[2] = 0
    /\ ~MirrorLaw(leftWing, rightWing)

(***************************************************************************)
(* JsonModelObject                                                         *)
(***************************************************************************)
\* The elements the interpreter's loop goes through for a document.
ElementsOf(json) ==
    IF json.null \/ "elements" \notin DOMAIN json THEN <<>> ELSE json.elements

\* C10: a mount that ends without error has added exactly one mesh per
\* element of the document, in document order, after the children that were
\* there before (none for a newly constructed instance); the box of element
\* i has the dimensions |to - from| per axis, and for an element without
\* rotation the box spans twice [min(from, to), max(from, to)] in doubled
\* lengths, so that its centre is (from + to) / 2 in document space also when
\* to < from on an axis, and the mesh is left at the origin, not rotated.
C10_BoxPerElement ==
    ~jsonThrew =>
        LET elements == ElementsOf(jsonIn)
        IN  /\ Len(children) = jsonBase + Len(elements)
            /\ (jsonMounts = 0 => Len(children) = Len(elements))
            /\ \A i \in 1..Len(elements) :
                 LET element == elements[i]
                     mesh == children[jsonBase + i]
                     box == mesh.geometry
                 IN  /\ \A k \in 1..3 :
                            box.parameters[k] = Abs(element.to[k] - element.from[k])
                     /\ "rotation" \notin DOMAIN element =>
                            /\ \A k \in 1..3 :
                                 /\ box.max2[k] - box.min2[k] = 2 * box.parameters[k]
                                 /\ box.min2[k] + box.max2[k] =
                                        2 * (element.from[k] + element.to[k])
                                 /\ mesh.position2[k] = 0
                            /\ mesh.orientation = Identity3

\* A new instance for a document of two elements without rotation: the first
\* from [0,0,0] to [2,2,2], a 2x2x2 box centred at (1,1,1); the second from
\* [2,1,0] to [0,1,2], with to < from on x, a 2x0x2 box centred at (1,1,1).
C10_Witness ==
    /\ jsonMounts = 0
    /\ ~jsonThrew
    /\ jsonIn = Document(<< Cuboid(<<0, 0, 0>>, <<2, 2, 2>>),
                            Cuboid(<<2, 1, 0>>, <<0, 1, 2>>) >>)
    /\ Len(children) = 2
    /\ children[1].geometry.parameters = <<2, 2, 2>>
    /\ children[1].geometry.min2 = <<0, 0, 0>>
    /\ children[1].geometry.max2 = <<4, 4, 4>>
    /\ children[2].geometry.parameters = <<2, 0, 2>>
    /\ children[2].geometry.min2 = <<0, 2, 0>>
    /\ children[2].geometry.max2 = <<4, 2, 4>>

\* The meshes the last mount added, in the order they were added.
Mounted == [i \in 1..(Len(children) - jsonBase) |-> children[jsonBase + i]]

\* A right-handed quarter turn of v about a unit axis, and n of them.
QuarterTurn(axisStr, v) ==
    CASE axisStr = "x" -> <<v[1], -v[3], v[2]>>
      [] axisStr = "y" -> <<v[3], v[2], -v[1]>>
      [] axisStr = "z" -> <<-v[2], v[1], v[3]>>
RECURSIVE Turn(_, _, _)
Turn(axisStr, n, v) ==
    IF n = 0 THEN v ELSE Turn(axisStr, n - 1, QuarterTurn(axisStr, v))

\* R(a, t) * (q - P) + P, on doubled lengths.
AboutPivot(rotation, q2) ==
    LET back == Turn(rotation.axis, QuarterTurns(rotation.angle),
                     [k \in 1..3 |-> q2[k] - 2 * rotation.origin[k]])
    IN  [k \in 1..3 |-> back[k] + 2 * rotation.origin[k]]

\* The eight corners of a box, and where the mesh puts a point of its box.
Corners(box) ==
    {<<x, y, z>> : x \in {box.min2[1], box.max2[1]},
                   y \in {box.min2[2], box.max2[2]},
                   z \in {box.min2[3], box.max2[3]}}
WorldPoint(mesh, q2) ==
    LET turned == MatVec(mesh.orientation, q2)
    IN  [k \in 1..3 |-> mesh.position2[k] + turned[k]]

Unrotated(face) ==
    << [x |-> <<face.uv[1], 16>>, y |-> <<16 - face.uv[4], 16>>],
       [x |-> <<face.uv[3], 16>>, y |-> <<16 - face.uv[4], 16>>],
       [x |-> <<face.uv[3], 16>>, y |-> <<16 - face.uv[2], 16>>],
       [x |-> <<face.uv[1], 16>>, y |-> <<16 - face.uv[2], 16>>] >>

\* The first uv slot of a named face in the box's uv attribute, less one, and
\* the face's vertex list read back from the attribute (slots hold list
\* entries 3, 2, 0, 1, 0-based).
JsonFaceBase(name) ==
    CASE name = "east" -> 0 [] name = "west" -> 4 [] name = "up" -> 8
      [] name = "down" -> 12 [] name = "south" -> 16 [] name = "north" -> 20
FaceList(mesh, name) ==
    LET attr == mesh.geometry.uv
        b == JsonFaceBase(name)
    IN  <<attr[b + 3], attr[b + 4], attr[b + 2], attr[b + 1]>>

DeclaredRotation(face) == IF "rotation" \in DOMAIN face THEN face.rotation ELSE 0

\* C12: in setJsonUVs a face declaring rotation r in {0, 90, 180, 270} gets
\* the unrotated list of 4 uv vertices shifted cyclically by floor(r / 90):
\* result[i] = unrotated[(i + floor(r / 90)) mod 4]; an absent rotation
\* counts as 0, rotation 90 is a shift by one, and the result is a
\* permutation of the four unrotated vertices.
C12_FaceRotationShift ==
    \A i \in 1..Len(Mounted) :
        \A k \in 1..6 :
            LET name == JsonFaceOrder[k]
                face == jsonIn.elements[i].faces[name]
                r == DeclaredRotation(face)
                list == FaceList(Mounted[i], name)
                plain == Unrotated(face)
            IN  r \in {0, 90, 180, 270} =>
                    /\ \A j \in 0..3 : list[j + 1] = plain[((j + (r \div 90)) % 4) + 1]
                    /\ (r = 90 => \A j \in 0..3 : list[j + 1] = plain[((j + 1) % 4) + 1])
                    /\ \E q \in Perms4 : \A j \in 1..4 : list[j] = plain[q[j]]

\* The north face, uv [0, 0, 4, 4], declared with rotation 90: its list starts
\* with the second unrotated vertex (4/16, 12/16) and ends with the first.
C12_Witness ==
    /\ ~jsonThrew
    /\ Len(Mounted) = 1
    /\ "rotation" \in DOMAIN jsonIn.elements[1].faces.north
    /\ jsonIn.elements[1].faces.north.rotation = 90
    /\ FaceList(Mounted[1], "north")[1] = [x |-> <<4, 16>>, y |-> <<12, 16>>]
    /\ FaceList(Mounted[1], "north")[4] = [x |-> <<0, 16>>, y |-> <<12, 16>>]
    /\ FaceList(Mounted[1], "north")[4] = Unrotated(jsonIn.elements[1].faces.north)[1]

\* The meshes a document gives a new instance.
MeshesOf(json) ==
    [i \in 1..Len(ElementsOf(json)) |-> ElementMesh(ElementsOf(json)[i])]

\* C13: after updateModel(newDoc, texture) on an instance that already holds
\* the meshes of a previous document, the children of the instance are
\* exactly the meshes of newDoc, one per element: no mesh of the previous
\* document remains.
C13_UpdateReplaces ==
    (jsonMounts > 0 /\ ~jsonThrew) => children = MeshesOf(jsonIn)

\* updateModel has run on an instance that held a mesh, with a document of
\* fewer elements than the instance has children now.
C13_Witness ==
    /\ jsonMounts = 1
    /\ ~jsonThrew
    /\ jsonBase > 0
    /\ Len(children) = jsonBase + Len(ElementsOf(jsonIn))
    /\ \A i \in 1..jsonBase : children[i] \notin {MeshesOf(jsonIn)[j] : j \in 1..Len(ElementsOf(jsonIn))}

\* No document (null / undefined), or a document without an elements field.
NoElements(json) == json.null \/ "elements" \notin DOMAIN json

\* C15: constructing a JsonModelObject with no document, or with a document
\* that has no elements field, raises no error and gives an instance with no
\* mesh; updateModel with such a document raises no error and adds no mesh.
C15_NoDocumentNoMesh ==
    /\ (NoElements(jsonIn) => (~jsonThrew /\ children = <<>>))
    /\ [][NoElements(jsonIn') => (~jsonThrew' /\ children' = children)]_vars

\* updateModel with a document without elements has returned on an instance
\* that holds a mesh: the instance still holds that mesh and no other.
C15_Witness ==
    /\ jsonMounts = 1
    /\ jsonIn = [null |-> FALSE]
    /\ ~jsonThrew
    /\ jsonBase = 1
    /\ Len(children) = 1

\* The elements of a document that lack none of the fields the interpreter
\* reads, in document order.
WholeElements(json) ==
    SelectSeq(ElementsOf(json), LAMBDA element : ~ElementThrows(element))

\* C16: when an element of the document lacks a field the interpreter reads
\* (from, to, faces, one of the six named faces or its uv, or rotation.origin
\* when there is a rotation), the mount does not fail: no exception leaves
\* the interpreter, that element gives no mesh, and the other elements of
\* the document are mounted.
C16_MissingFieldsDegrade ==
    /\ ~jsonThrew
    /\ Mounted = [i \in 1..Len(WholeElements(jsonIn)) |->
                    ElementMesh(WholeElements(jsonIn)[i])]

\* A document of two elements, the first without one of its fields and the
\* second whole: the mount ended in a TypeError and mounted nothing.
C16_Witness ==
    /\ jsonThrew
    /\ Len(ElementsOf(jsonIn)) = 2
    /\ ElementThrows(jsonIn.elements[1])
    /\ ~ElementThrows(jsonIn.elements[2])
    /\ Len(Mounted) = 0

\* C17: if element.rotation.axis is anything but "x", "y" or "z", the rotation
\* is a no-op for every angle and every pivot: the mesh has the position and
\* the orientation it has for the same element without a rotation, and no
\* error is raised.
C17_UnknownAxisNoOp ==
    \A i \in 1..Len(Mounted) :
        LET element == jsonIn.elements[i]
        IN  ("rotation" \in DOMAIN element /\ element.rotation.axis \notin {"x", "y", "z"}) =>
                /\ ~jsonThrew
                /\ Mounted[i] = JsonMesh(ElementBox(element))

\* A rotation of 90 degrees about the axis "w" with pivot [2,0,2]: the mesh
\* has not turned, but it has moved from the origin to (1,0,1).
C17_Witness ==
    /\ ~jsonThrew
    /\ Len(Mounted) = 1
    /\ "rotation" \in DOMAIN jsonIn.elements[1]
    /\ jsonIn.elements[1].rotation = [angle |-> 90, axis |-> "w", origin |-> <<2, 0, 2>>]
    /\ Mounted[1].orientation = Identity3
    /\ Mounted[1].position2 = <<2, 0, 2>>

\* C18: mounting a document (constructor or updateModel) changes only the
\* subtree of the instance being mounted: the document handed in is the same
\* after the mount as before, every field of every element and face
\* included (a face without rotation still has none), and no other object
\* changes.
C18_MountFrame ==
    /\ jsonDoc = jsonIn
    /\ [][jsonDoc' = jsonIn' /\ UNCHANGED jsonRest]_vars

\* The north face of the document's first element had no rotation when the
\* document was handed in, and has the rotation 0 after the mount.
C18_Witness ==
    /\ ~jsonThrew
    /\ Len(ElementsOf(jsonIn)) >= 1
    /\ "rotation" \notin DOMAIN jsonIn.elements[1].faces.north
    /\ "rotation" \in DOMAIN jsonDoc.elements[1].faces.north
    /\ jsonDoc.elements[1].faces.north.rotation = 0
    /\ jsonDoc.elements[1].faces.north.uv = jsonIn.elements[1].faces.north.uv

(***************************************************************************)
(* SkinObject: boxes of the layers                                         *)
(***************************************************************************)
\* The outer layer of a body part, and the size of a layer's box as it is
\* drawn (geometry times mesh scale), in tenths.
OuterOf(part) ==
    CASE part = "head" -> "head2" [] part = "body" -> "body2"
      [] part = "rightArm" -> "rightArm2" [] part = "leftArm" -> "leftArm2"
      [] part = "rightLeg" -> "rightLeg2" [] part = "leftLeg" -> "leftLeg2"
BoxSize(layer) ==
    [k \in 1..3 |-> (skin.box[layer].geom[k] * skin.box[layer].scale[k]) \div 10]

\* The outer box of part is its inner box plus margin (tenths) on every axis.
Enlarged(part, margin) ==
    \A k \in 1..3 : BoxSize(OuterOf(part))[k] = BoxSize(part)[k] + margin

\* C19 as stated: each outer box is the inner box enlarged on every axis by
\* exactly 1 for head, body and both legs and by exactly 0.5 for both arms,
\* in the slim and in the classic variant.
C19_AsStated ==
    /\ \A part \in {"head", "body", "rightLeg", "leftLeg"} : Enlarged(part, 10)
    /\ \A part \in {"rightArm", "leftArm"} : Enlarged(part, 5)

\* C19, amended: each outer box is the inner box enlarged on every axis by
\* exactly 1 for the head only, and by exactly 0.5 for the body, both legs
\* and both arms, in the slim and in the classic variant.
C19_OuterMargins ==
    /\ Enlarged("head", 10)
    /\ \A part \in {"body", "rightLeg", "leftLeg", "rightArm", "leftArm"} :
          Enlarged(part, 5)

\* The slim variant: arms 3 x 12 x 4 under 3.5 x 12.5 x 4.5, the body
\* 8 x 12 x 4 under 8.5 x 12.5 x 4.5, the head 8 x 8 x 8 under 9 x 9 x 9.
C19_Witness ==
    /\ skin.slim
    /\ BoxSize("rightArm") = <<30, 120, 40>> /\ BoxSize("rightArm2") = <<35, 125, 45>>
    /\ BoxSize("leftArm") = <<30, 120, 40>> /\ BoxSize("leftArm2") = <<35, 125, 45>>
    /\ BoxSize("body") = <<80, 120, 40>> /\ BoxSize("body2") = <<85, 125, 45>>
    /\ BoxSize("rightLeg2") = <<45, 125, 45>>
    /\ BoxSize("head") = <<80, 80, 80>> /\ BoxSize("head2") = <<90, 90, 90>>

\* C20: assigning SkinObject.modelType changes only the slim flag and the two
\* arm parts (scale and uv of the inner and outer arm meshes, x of the arm
\* pivots): the boxes, uv and positions of head, body and both legs, the
\* boxes of the arms, the y (and z) of the arm pivots, the positions of the
\* arms themselves and the visibility of every layer stay as they were.
C20_ModelTypeFrame ==
    [][assigned' # assigned =>
        /\ DOMAIN skin' = {"slim", "box", "pos"}
        /\ \A l \in Layers \ ArmLayers : skin'.box[l] = skin.box[l]
        /\ \A l \in ArmLayers :
              /\ skin'.box[l].geom = skin.box[l].geom
              /\ skin'.box[l].visible = skin.box[l].visible
        /\ \A g \in Groups \ {"rightArmPivot", "leftArmPivot"} :
              skin'.pos[g] = skin.pos[g]
        /\ \A g \in {"rightArmPivot", "leftArmPivot"} :
              /\ skin'.pos[g][2] = skin.pos[g][2]
              /\ skin'.pos[g][3] = skin.pos[g][3]
        /\ UNCHANGED skinRest]_vars

\* The slim variant has been assigned on a SkinObject whose inner layers are
\* hidden and whose outer layers are shown: the arms are 3 wide and still
\* hidden, the arm pivots are at x = -0.5 / 0.5 and still at y = -4.
C20_Witness ==
    /\ Len(assigned) >= 1
    /\ assigned[Len(assigned)] = "slim"
    /\ skin.slim
    /\ \A l \in InnerLayers : ~skin.box[l].visible
    /\ \A l \in OuterLayers : skin.box[l].visible
    /\ skin.box["rightArm"].scale = <<30, 120, 40>>
    /\ skin.pos["rightArmPivot"] = <<-5, -40, 0>>
    /\ skin.pos["leftArmPivot"] = <<5, -40, 0>>

\* C21: setInnerLayerVisible(v) sets the visible flag of the inner layer of
\* all six body parts to v and leaves the flag of every outer layer as it
\* was; setOuterLayerVisible(v) does the same with the six outer layers and
\* leaves every inner layer as it was; neither changes the visible flag of
\* what is attached under the head (ears, hats), nor anything else.
C21_LayerVisibilityFrame ==
    [][ /\ \A v \in BOOLEAN : SetInnerLayerVisible(v) =>
              /\ \A l \in InnerLayers : skin'.box[l].visible = v
              /\ \A l \in OuterLayers : skin'.box[l].visible = skin.box[l].visible
              /\ \A l \in Layers : [skin'.box[l] EXCEPT !.visible = TRUE]
                                     = [skin.box[l] EXCEPT !.visible = TRUE]
              /\ skin'.pos = skin.pos /\ skin'.slim = skin.slim
              /\ player' = player
        /\ \A v \in BOOLEAN : SetOuterLayerVisible(v) =>
              /\ \A l \in OuterLayers : skin'.box[l].visible = v
              /\ \A l \in InnerLayers : skin'.box[l].visible = skin.box[l].visible
              /\ \A l \in Layers : [skin'.box[l] EXCEPT !.visible = TRUE]
                                     = [skin.box[l] EXCEPT !.visible = TRUE]
              /\ skin'.pos = skin.pos /\ skin'.slim = skin.slim
              /\ player' = player ]_vars

\* The classic variant with all six outer layers hidden and all six inner
\* layers shown; under the head the hat is still shown and the ears are
\* still hidden.
C21_Witness ==
    /\ ~skin.slim
    /\ \A l \in OuterLayers : ~skin.box[l].visible
    /\ \A l \in InnerLayers : skin.box[l].visible
    /\ player.objects[player.fields["hat"]].parent = "skin.head"
    /\ player.objects[player.fields["hat"]].visible
    /\ player.objects[player.fields["ears"]].parent = "skin.head"
    /\ ~player.objects[player.fields["ears"]].visible

(***************************************************************************)
(* PlayerObject                                                            *)
(***************************************************************************)
\* The objects created for the numbered slots, by the place of creation.
NumberedSites == {HatSites[i] : i \in 1..9} \cup {ShoulderBuddySites[i] : i \in 1..9}

\* Field `field` of the PlayerObject holds an instance named `field`.
SlotHolds(field) ==
    /\ player.fields[field] # "null"
    /\ player.fields[field] \in DOMAIN player.objects
    /\ player.objects[player.fields[field]].name = field

\* C14: for every i in 1..9 the field hat<i> (shoulderBuddy<i>) holds a
\* mounted instance named "hat<i>" ("shoulderBuddy<i>") iff hatCanvases[i-1]
\* (shoulderBuddyCanvases[i-1]) is not null; every instance mounted for a
\* numbered slot is the one its own slot field refers to; and no two mounted
\* instances have the same name.
C14_SlotsMatchInputs ==
    /\ \A i \in 1..9 : SlotHolds(HatFields[i]) <=> hatCanvases[i]
    /\ \A i \in 1..9 : SlotHolds(ShoulderBuddyFields[i]) <=> shoulderBuddyCanvases[i]
    /\ \A k \in DOMAIN player.objects \cap NumberedSites :
          /\ player.objects[k].name \in DOMAIN player.fields
          /\ player.fields[player.objects[k].name] = k
    /\ \A k1, k2 \in DOMAIN player.objects :
          k1 # k2 => player.objects[k1].name # player.objects[k2].name

\* hatCanvases[7] and hatCanvases[8] are both given: the field hat9 is null,
\* two instances named "hat8" are mounted under the head, and the field hat8
\* refers to the one built from hatCanvases[8].
C14_Witness ==
    /\ hatCanvases[8] /\ hatCanvases[9]
    /\ player.fields["hat9"] = "null"
    /\ player.fields["hat8"] = "hat@681"
    /\ {"hat@671", "hat@681"} \subseteq DOMAIN player.objects
    /\ player.objects["hat@671"].name = "hat8"
    /\ player.objects["hat@681"].name = "hat8"
    /\ player.objects["hat@671"].model = "hatCanvases[7].model"

(***************************************************************************)
(* SkinViewer: the render loop                                             *)
(***************************************************************************)
\* draw() starts executing in this step.
DrawStarts == running = 0 /\ running' # 0

\* Claim C22: while renderPaused is true no animation frame is pending and
\* draw() does not start, also when the assignment was made by an animation
\* function inside draw(); setting it to false on a viewer that is not
\* disposed and whose context is not lost leaves a frame pending or a draw()
\* executing that will request one; a viewer constructed paused has no frame
\* pending.
C22_PauseStopsLoop ==
    /\ [](renderPaused => frames = {})
    /\ [][renderPaused => ~DrawStarts]_vars
    /\ [][(SetRenderPaused(FALSE) /\ ~disposed /\ ~contextLost)
            => (frames' # {} \/ running' # 0)]_vars

\* renderPaused was assigned true inside draw(), draw() has returned, and a
\* frame is pending on the paused viewer.
C22_Witness ==
    renderPaused /\ ~disposed /\ ~contextLost /\ running = 0 /\ frames # {}

\* Claim C26: at most one animation-frame request is pending at any time.
C26_SingleFrame == Cardinality(frames) <= 1

\* Two requests are pending at once on a viewer that is not paused.
C26_Witness ==
    Cardinality(frames) = 2 /\ running = 0 /\ ~renderPaused /\ ~disposed

\* Claim C27: once dispose() has been called, disposed stays true, no
\* animation frame is requested and draw() does not start, whatever follows,
\* also when dispose() was called by an animation function inside draw().
C27_DisposeIsFinal ==
    [][disposed => /\ disposed'
                   /\ frames' \subseteq frames
                   /\ ~DrawStarts]_vars

\* dispose() was called inside draw(), draw() has returned, and a frame is
\* pending on the disposed viewer.
C27_Witness == disposed /\ running = 0 /\ frames # {} /\ ~renderPaused

\* Claim C30: outside an executing draw(), an animation frame is pending and
\* animationID is not null exactly when the viewer is not paused, not
\* disposed and its context is not lost.
C30_PendingIff ==
    running = 0 =>
        /\ (animationID # 0) <=> (~renderPaused /\ ~disposed /\ ~contextLost)
        /\ (frames # {}) <=> (~renderPaused /\ ~disposed /\ ~contextLost)

\* Outside draw(), animationID is not null on a paused viewer whose context
\* was never lost.
C30_Witness ==
    running = 0 /\ animationID # 0 /\ animationID \in frames /\ renderPaused
        /\ ~contextLost /\ ~lostQueued

(***************************************************************************)
(* SkinViewer: the load operations                                         *)
(***************************************************************************)
\* The object a load operation is to show, and the objects it may show.
Target(op, options) ==
    IF op = "cape"
    THEN IF options.backEquipment = "undefined" THEN "cape" ELSE options.backEquipment
    ELSE op

Targets(op) == IF op = "cape" THEN {"cape", "elytra"} ELSE {op}

\* Claim C23: a load operation called with a texture source leaves the
\* visibility of its target as it was when options.makeVisible is false, and
\* leaves the target visible otherwise.
C23_MakeVisible ==
    [][\A op \in LoadOps :
         \A source \in TextureSources(op), options \in LoadOptions(op) :
           Load(op, source, options) =>
             IF options.makeVisible = "false"
             THEN \A field \in Targets(op) :
                      Visible(player', field) = Visible(player, field)
             ELSE Visible(player', Target(op, options))]_vars

\* An image has been drawn on the hat canvas and on the shoulder buddy canvas
\* and both objects are visible, the skin is not.
C23_Witness ==
    /\ loaded.hat # Blank /\ Visible(player, "hat")
    /\ loaded.shoulderBuddy # Blank /\ Visible(player, "shoulderBuddy")
    /\ loaded.skin # Blank /\ ~Visible(player, "skin")

\* Claim C24: loadCape with a texture source shows exactly the equipment named
\* by options.backEquipment ("cape" when absent) unless makeVisible is false,
\* in which case cape and elytra stay as they were; cape and elytra are never
\* both visible; after an assignment to backEquipment, a loadCape that shows
\* an equipment, or resetCape, the getter returns the value assigned.
C24_BackEquipment ==
    /\ [](~(Visible(player, "cape") /\ Visible(player, "elytra")))
    /\ [][\A source \in TextureSources("cape"), options \in CapeLoadOptions :
            Load("cape", source, options) =>
              IF options.makeVisible = "false"
              THEN \A field \in {"cape", "elytra"} :
                       Visible(player', field) = Visible(player, field)
              ELSE /\ GetBackEquipment(player') = Target("cape", options)
                   /\ \A field \in {"cape", "elytra"} :
                          Visible(player', field) <=> field = Target("cape", options)]_vars
    /\ [][\A value \in {"cape", "elytra", "null"} :
            AssignBackEquipment(value) => GetBackEquipment(player') = value]_vars
    /\ [][Load("cape", NullSource, NoOptions) => GetBackEquipment(player') = "null"]_vars

\* A cape image has been loaded and the elytra is the equipment shown.
C24_Witness ==
    /\ loaded.cape = Drawn("A", "cape")
    /\ Visible(player, "elytra") /\ ~Visible(player, "cape")
    /\ GetBackEquipment(player) = "elytra"

\* What resetAllHats / resetAllShoulderBuddies is to do with the instances
\* created at sites for the slots 1..9, and with everything else.
ShowsOnlySlot(sites, toShow) ==
    /\ \A i \in 1..9 :
           sites[i] \in DOMAIN player.objects =>
               (player'.objects[sites[i]].visible <=> i = toShow)
    /\ DOMAIN player'.objects = DOMAIN player.objects
    /\ player'.fields = player.fields
    /\ \A site \in DOMAIN player.objects \ {sites[i] : i \in 1..9} :
           player'.objects[site] = player.objects[site]
    /\ \A i \in 1..9 :
           sites[i] \in DOMAIN player.objects =>
               [player'.objects[sites[i]] EXCEPT !.visible = TRUE]
                   = [player.objects[sites[i]] EXCEPT !.visible = TRUE]

\* Claim C25: after resetAllHats(k) (resetAllShoulderBuddies(k)) every mounted
\* numbered hat (shoulder buddy) instance is visible iff it is the one of slot
\* k, and nothing else has changed.
C25_ResetAll ==
    [][/\ \A toShow \in ToShow :
            ResetAllHats(toShow) => ShowsOnlySlot(HatSites, toShow)
       /\ \A toShow \in ToShow :
            ResetAllShoulderBuddies(toShow) =>
                ShowsOnlySlot(ShoulderBuddySites, toShow)]_vars

\* Slots 8 and 9 are both populated, resetAllHats has hidden the instance the
\* field hat8 holds, and the instance created for slot 8 is still visible.
C25_Witness ==
    /\ hatCanvases[8] /\ hatCanvases[9]
    /\ player.fields["hat8"] = HatSites[9]
    /\ ~player.objects[HatSites[9]].visible
    /\ player.objects[HatSites[8]].visible

\* The source the handler is run on once the image of a call is there.
Arrived(source) ==
    IF source.kind = "remote" THEN TextureSource(source.image) ELSE source

\* Claim C28: when an operation was called with a remote source and then
\* called again with a remote source or null, then once no image load of the
\* operation is under way the canvas, the model type and the visibility are
\* the ones the later call produces (running the later call's handler again
\* changes nothing).
C28_LaterCallWins ==
    \A op \in LoadOps :
        (/\ Len(called[op]) = 2
         /\ called[op][1].source.kind = "remote"
         /\ ~\E load \in loads : load.op = op)
        => LoadOf(Viewer, op, Arrived(called[op][2].source),
                  called[op][2].options) = Viewer

\* loadSkin(A) then loadSkin(B), both loads completed, and the canvas holds A.
C28_Witness ==
    /\ Len(called.skin) = 2
    /\ called.skin[1].source = RemoteImage("A")
    /\ called.skin[2].source = RemoteImage("B")
    /\ loads = {}
    /\ loaded.skin = Drawn("A", "skin")
    /\ modelType = "default"

(***************************************************************************)
(* The atlases                                                             *)
(***************************************************************************)
\* The face rectangles of the 12 layers, each with its layer and its face.
LayerFaceBoxes ==
    {<<l, f, FaceBox(skin.box[l].uv, f)>> : l \in Layers, f \in 1..6}

\* The six face rectangles of an attribute.
FaceBoxes(attr) == {FaceBox(attr, f) : f \in 1..6}

\* Claim C29: in both variants the face rectangles of the 12 layers of the
\* SkinObject lie inside the 64x64 atlas and no two of them, of the same or of
\* different layers, overlap; the face rectangles of the cape and of the
\* elytra wing lie inside the 64x32 atlas and no cape face overlaps a wing
\* face; the face rectangles of the ears lie inside the 14x7 atlas.
C29_AtlasLayout ==
    /\ \A l \in Layers : InUnitSquare(skin.box[l].uv)
    /\ \A a, b \in LayerFaceBoxes :
           (a[1] # b[1] \/ a[2] # b[2]) => ~BoxesOverlap(a[3], b[3])
    /\ InUnitSquare(CapeBoxUVs) /\ InUnitSquare(WingBoxUVs)
    /\ \A a \in FaceBoxes(CapeBoxUVs), b \in FaceBoxes(WingBoxUVs) : ~BoxesOverlap(a, b)
    /\ InUnitSquare(EarBoxUVs)

\* The slim variant, its arms placed with width 3, after a change of variant.
C29_Witness ==
    /\ skin.slim
    /\ Len(assigned) >= 2
    /\ skin.box["leftArm2"].uv = SetSkinUVs(BoxGeometryUVs, 48, 48, 3, 12, 4)
    /\ skin.box["rightArm"].uv = SetSkinUVs(BoxGeometryUVs, 40, 16, 3, 12, 4)

====
